---- MODULE Spec2Model ----
(***************************************************************************)
(* auto-commit-ai: the AI provider layer (prompt rendering, the bounded    *)
(* retry loop of generate_commit_message, the reply parser) and the        *)
(* default commit flow of AutoCommitAI that drives it.                     *)
(*                                                                         *)
(* Text is modelled as a sequence of tokens.  A reply of a backend is a    *)
(* sequence over the alphabet ReplyTokens, each token standing for the     *)
(* characters it spells; a prompt is the sequence of the text chunks that  *)
(* str.format joins.  Python's None is the value None.                     *)
(***************************************************************************)
EXTENDS Integers, Sequences, FiniteSets, TLC

None == "<None>"

\* Python truthiness of an Optional[str]: None and "" are falsy.
Falsy(x) == x = None \/ x = ""

\* An `or` that falls through on None only and keeps an empty string.
OrNoneOnly(a, b) == IF a = None THEN b ELSE a

\* Python's `a or b`.
Or(a, b) == IF Falsy(a) THEN b ELSE a

Min(S) == CHOOSE x \in S : \A y \in S : x <= y

(***************************************************************************)
(* The reply alphabet.                                                     *)
(***************************************************************************)
\* Three backticks (a backtick cannot be written in a TLA+ string).
FENCE == "[fence]"
TAG == "json"
WS == " "
LB == "{"
RB == "}"
QUOTE == "\""
COLON == ":"
COMMA == ","
NULL == "null"
ReplyTokens ==
    {FENCE, TAG, WS, LB, RB, QUOTE, COLON, COMMA, NULL, "title", "description", "x"}

(***************************************************************************)
(* str.strip(): drop the leading and the trailing whitespace.              *)
(***************************************************************************)
RECURSIVE LStrip(_)
LStrip(s) == IF s # <<>> /\ Head(s) = WS THEN LStrip(Tail(s)) ELSE s

RECURSIVE RStrip(_)
RStrip(s) ==
    IF s # <<>> /\ s[Len(s)] = WS THEN RStrip(SubSeq(s, 1, Len(s) - 1)) ELSE s

Strip(s) == RStrip(LStrip(s))

\* The first position >= i of s that holds no whitespace (Len(s) + 1 at the end):
\* where a greedy \s* started at i stops.
RECURSIVE SkipWs(_, _)
SkipWs(s, i) == IF i <= Len(s) /\ s[i] = WS THEN SkipWs(s, i + 1) ELSE i

(***************************************************************************)
(* re.search(FENCE (?:json)? \s* ( \{ .*? \} ) \s* FENCE, content, DOTALL)   *)
(***************************************************************************)
\* The pattern matched with its first fence at position i: the fence, the
\* optional tag, whitespace, then "{", the shortest run of any tokens that ends
\* in a "}" after which only whitespace precedes a closing fence.
FenceMatchAt(s, i) ==
    IF i > Len(s) \/ s[i] # FENCE
    THEN [found |-> FALSE, group |-> <<>>]
    ELSE LET a == IF i + 1 <= Len(s) /\ s[i + 1] = TAG THEN i + 2 ELSE i + 1
             p == SkipWs(s, a)
             Q == {q \in (p + 1)..Len(s) :
                      /\ s[q] = RB
                      /\ SkipWs(s, q + 1) <= Len(s)
                      /\ s[SkipWs(s, q + 1)] = FENCE}
         IN  IF p <= Len(s) /\ s[p] = LB /\ Q # {}
             THEN [found |-> TRUE, group |-> SubSeq(s, p, Min(Q))]
             ELSE [found |-> FALSE, group |-> <<>>]

\* re.search: the match at the leftmost position that has one.
FenceSearch(s) ==
    LET I == {i \in 1..Len(s) : FenceMatchAt(s, i).found}
    IN  IF I = {} THEN [found |-> FALSE, group |-> <<>>] ELSE FenceMatchAt(s, Min(I))

\* AIProvider._clean_markdown_json_block
CleanMarkdownJsonBlock(content) ==
    LET match == FenceSearch(content)
    IN  IF match.found THEN match.group ELSE Strip(content)

(***************************************************************************)
(* json.loads over the reply alphabet.  A value is                         *)
(*   [t |-> "str", s |-> tokens]   a string                                *)
(*   [t |-> "obj", m |-> map]      an object: a function from keys          *)
(*                                 (the tokens of a string) to values             *)
(*   [t |-> "null"]                null (Python's None)                    *)
(* A parse is [ok, val, next]: next is the position after the value.       *)
(***************************************************************************)
JsonFail == [ok |-> FALSE, val |-> [t |-> "null"], next |-> 0]

JsonOk(v, n) == [ok |-> TRUE, val |-> v, next |-> n]

\* dict assignment: the last value of a repeated key wins.
Put(m, k, v) == [x \in (DOMAIN m) \cup {k} |-> IF x = k THEN v ELSE m[x]]

EmptyMap == [x \in {} |-> 0]

\* A string that opens at position i (s[i] is the quote): up to the next quote.
JsonString(s, i) ==
    LET J == {j \in (i + 1)..Len(s) : s[j] = QUOTE}
    IN  IF J = {} THEN JsonFail
        ELSE JsonOk([t |-> "str", s |-> SubSeq(s, i + 1, Min(J) - 1)], Min(J) + 1)

RECURSIVE JsonValue(_, _), JsonMembers(_, _, _)

\* The value that starts at position i.
JsonValue(s, i) ==
    IF i > Len(s) THEN JsonFail
    ELSE IF s[i] = QUOTE THEN JsonString(s, i)
    ELSE IF s[i] = NULL THEN JsonOk([t |-> "null"], i + 1)
    ELSE IF s[i] = LB THEN
        LET j == SkipWs(s, i + 1)
        IN  IF j <= Len(s) /\ s[j] = RB
            THEN JsonOk([t |-> "obj", m |-> EmptyMap], j + 1)
            ELSE JsonMembers(s, j, EmptyMap)
    ELSE JsonFail

\* The members of an object from position i (a key is expected there), m the
\* members read so far.
JsonMembers(s, i, m) ==
    IF i > Len(s) \/ s[i] # QUOTE THEN JsonFail
    ELSE LET key == JsonString(s, i)
             c == SkipWs(s, key.next)
         IN  IF ~key.ok \/ c > Len(s) \/ s[c] # COLON THEN JsonFail
             ELSE LET v == JsonValue(s, SkipWs(s, c + 1))
                      e == SkipWs(s, v.next)
                  IN  IF ~v.ok \/ e > Len(s) THEN JsonFail
                      ELSE IF s[e] = RB
                           THEN JsonOk([t |-> "obj", m |-> Put(m, key.val.s, v.val)], e + 1)
                      ELSE IF s[e] = COMMA
                           THEN JsonMembers(s, SkipWs(s, e + 1), Put(m, key.val.s, v.val))
                      ELSE JsonFail

\* json.loads(text): one value with only whitespace around it; anything else
\* raises JSONDecodeError (ok is FALSE).
JsonLoads(text) ==
    LET r == JsonValue(text, SkipWs(text, 1))
    IN  IF r.ok /\ SkipWs(text, r.next) = Len(text) + 1
        THEN [ok |-> TRUE, val |-> r.val]
        ELSE [ok |-> FALSE, val |-> [t |-> "null"]]

(***************************************************************************)
(* providers/prompts.py: the templates.  A template is the sequence of its *)
(* literal chunks and replacement fields; str.format puts the value of     *)
(* each field in its place and ignores the keyword arguments no field      *)
(* names.                                                                  *)
(***************************************************************************)
Lit(s) == [kind |-> "lit", text |-> s]

Field(n) == [kind |-> "field", text |-> n]

SYSTEM_PROMPT ==
    "You are an expert in Git who creates concise and descriptive commit titles and descriptions following best practices."

BASE_COMMIT_PROMPT ==
    << Lit("\nBased on the following code changes, generate a concise and descriptive commit title and description. Adittionally, there are some extra information can be added:\n"),
       Lit("- Branch name: to help you understand the general context of the changes. [...]\n"),
       Lit("- Previous commits: as branch name, it's only to have related changes made before, but you must to use the current changes mainly\n"),
       Lit("- Additional context: specify requirements, objectives or extra info in case that it's not easy to extract only with the code\n"),
       Lit("\nRequirements:\n- Follow the Conventional Commits format.\n"),
       Lit("- The message must be written in "),
       Field("language"),
       Lit(" (ISO 639-1).\n"),
       Lit("[...]\nOutput instructions:\n- Respond **only** with a JSON object containing exactly two keys: \"title\" and \"description\".\n[...]\nReturn only the JSON object.\n"),
       Lit("\nFollowing are all the information you have about the changes:\n\n") >>

BRANCH_NAME == << Lit("\n\nBranch name:\n"), Field("branch_name"), Lit("\n\n") >>

PREVIOUS_COMMITS ==
    << Lit("\n\nPrevious commits:\n"), Field("previous_commits"), Lit("\n\n") >>

ADDITIONAL_CONTEXT ==
    << Lit("\n\nAdditional context:\n"), Field("additional_context"), Lit("\n\n") >>

CODE_CHANGES == << Lit("\n\nCode changes:\n"), Field("diff_content"), Lit("\n\n") >>

\* str.format(**kwargs): the text, as the sequence of its chunks; the value of a
\* field is a text itself.
RECURSIVE Format(_, _)
Format(template, kwargs) ==
    IF template = <<>> THEN <<>>
    ELSE (IF Head(template).kind = "field" THEN kwargs[Head(template).text]
          ELSE <<Head(template).text>>)
             \o Format(Tail(template), kwargs)

(***************************************************************************)
(* The providers.                                                          *)
(***************************************************************************)
Providers == {"openai", "google", "azure", "ollama"}

max_attempts == 3

\* The name the provider's final error carries.
ProviderLabel(p) ==
    CASE p = "openai" -> "OpenAI"
      [] p = "google" -> "Google Gemini"
      [] p = "azure" -> "Azure OpenAI"
      [] p = "ollama" -> "Ollama"

\* What the except branch of the retry loop prints.
ExceptPrints(p) == IF p \in {"azure", "ollama"} THEN <<"Retrying...">> ELSE <<>>

\* The loop condition off by one: a fourth attempt.
LoopConditionOffByOne(a) == a <= max_attempts

\* while attemps < max_attempts
LoopCondition(a) == a < max_attempts

\* A result not set (yet), and no error raised.
Unset == [t |-> "unset"]

PyNone == [t |-> "null"]

NoError == [with |-> "", after |-> 0]

(***************************************************************************)
(* Bounds and the inputs drawn.                                            *)
(***************************************************************************)
\* The generate calls made on one provider.
MaxCalls == 3

\* A diff text is the sequence of its lines.
DiffInputs == {<<"+print('hi')">>, <<"-x = 1", "+x = 2">>}

LanguageInputs == {None, "es"}

DefaultLangs == {"", "fr"}

\* config.py: a Config with the settings of every provider present.
FullConfig ==
    [openai_api_key |-> "sk-openai", google_api_key |-> "google-key",
     azure_api_key |-> "azure-key", azure_endpoint |-> "https://azure.example",
     ollama_model |-> "llama3", default_lang |-> "en", default_provider |-> "openai"]

Str(c) == <<QUOTE>> \o c \o <<QUOTE>>

Member(k, c) == Str(<<k>>) \o <<COLON, WS>> \o Str(c)

\* The replies a backend gives: a well-formed one bare and one fenced, one with no
\* title, one that is a JSON string, prose that is no JSON.
ReplyGood == <<LB>> \o Member("title", <<"x">>) \o <<COMMA, WS>> \o Member("description", <<"x", WS, "x">>) \o <<RB>>

ReplyFenced ==
    <<FENCE, TAG, WS, LB>> \o Member("title", <<"x", "x">>) \o <<COMMA>>
        \o Member("description", <<>>) \o <<RB, WS, FENCE, WS>>

ReplyNoTitle == <<LB>> \o Member("description", <<"x">>) \o <<RB>>

ReplyString == Str(<<"x">>)

ReplyProse == <<"x", WS, "x">>

BackendReplies == {ReplyGood, ReplyFenced, ReplyNoTitle, ReplyString, ReplyProse}

\* What one backend call comes to: it raises (network, auth, rate limit), it
\* answers with no content (None), or it answers with text.
BackendOutcomes ==
    {[kind |-> "raise", text |-> <<>>], [kind |-> "none", text |-> <<>>]}
        \cup {[kind |-> "text", text |-> r] : r \in BackendReplies}

VARIABLES
    provider,     \* the variant of the provider object
    config,       \* the Config the provider is bound to
    pc,           \* generate_commit_message: "idle", "loop", "returned", "raised"
    args,         \* its arguments: [diff_content, language]
    language,     \* its local language, resolved
    prompt,       \* its local prompt
    attemps,      \* its local attemps
    sent,         \* the backend calls it has issued: the prompts sent
    outcomes,     \* what each of them came to
    printed,      \* what it has printed
    result,       \* the value it returned
    error,        \* the exception it raised
    calls,        \* the generate calls made on the provider
    renders,      \* every _create_base_prompt so far: [diff_content, language, prompt]
    parseIn,      \* the parser's harness: a reply, bare
    parseOut,     \* and what the parser made of it under each wrapping tried
    opts,         \* generate_and_commit: its arguments
    repo,         \* the Git repository
    fpc,          \* generate_and_commit: where it is
    commit_message, \* its local commit_message
    res,          \* its result dict
    asked,        \* the confirmations it has asked the user for
    answered,     \* and what the user answered to each
    console,      \* what it has printed: [stream, text]
    repo0,        \* the repository as it was when the flow was entered
    factory,      \* create_provider and is_configured: the last call and its outcome
    cli           \* main: its arguments, where it is and its exit code

providerVars ==
    <<provider, config, pc, args, language, prompt, attemps, sent, outcomes, printed,
      result, error, calls, renders>>

parseVars == <<parseIn, parseOut>>

flowVars == <<opts, repo, fpc, commit_message, res, asked, answered, console>>

entryVars == <<repo0, factory, cli>>

vars == <<providerVars, parseVars, flowVars, entryVars>>

(***************************************************************************)
(* providers/base.py                                                       *)
(***************************************************************************)
\* A rendering that appends to the prompt of the call before.
CreateBasePromptAccumulating(diff_content, lang) ==
    prompt \o Format(BASE_COMMIT_PROMPT,
                     [diff_content |-> diff_content,
                      language |-> <<Or(lang, Or(config.default_lang, "en"))>>])

\* AIProvider._create_base_prompt
CreateBasePrompt(diff_content, lang) ==
    LET l == Or(lang, Or(config.default_lang, "en"))
    IN  Format(BASE_COMMIT_PROMPT, [diff_content |-> diff_content, language |-> <<l>>])

\* The prompt generate_commit_message builds: Google's carries the system prompt
\* in front, the others send it as a message of its own.
BuildPrompt(p, diff_content, lang) ==
    IF p = "google"
    THEN <<SYSTEM_PROMPT, "\n\n">> \o CreateBasePrompt(diff_content, lang)
    ELSE CreateBasePrompt(diff_content, lang)

(***************************************************************************)
(* generate_commit_message, the same in the four providers but for the     *)
(* backend called and what the except branch prints.                       *)
(***************************************************************************)
\* A start that keeps the count of failed attempts on the provider, from one call
\* to the next.
GenerateKeepsAttemps(diff_content, lang) ==
    LET l == Or(lang, Or(config.default_lang, "en"))
    IN  /\ args' = [diff_content |-> diff_content, language |-> lang]
        /\ language' = l
        /\ prompt' = BuildPrompt(provider, diff_content, l)
        /\ renders' = Append(renders, [diff_content |-> diff_content, language |-> lang,
                                       prompt |-> CreateBasePrompt(diff_content, l)])
        /\ attemps' = attemps
        /\ pc' = "loop"
        /\ sent' = <<>>
        /\ outcomes' = <<>>
        /\ printed' = <<>>
        /\ result' = Unset
        /\ error' = NoError
        /\ calls' = calls + 1
        /\ UNCHANGED <<provider, config>>

\* The start of a call: the language is resolved and the prompt is rendered.
Generate(diff_content, lang) ==
    LET l == Or(lang, Or(config.default_lang, "en"))
    IN  /\ args' = [diff_content |-> diff_content, language |-> lang]
        /\ language' = l
        /\ prompt' = BuildPrompt(provider, diff_content, l)
        /\ renders' = Append(renders, [diff_content |-> diff_content, language |-> lang,
                                       prompt |-> CreateBasePrompt(diff_content, l)])
        /\ attemps' = 0
        /\ pc' = "loop"
        /\ sent' = <<>>
        /\ outcomes' = <<>>
        /\ printed' = <<>>
        /\ result' = Unset
        /\ error' = NoError
        /\ calls' = calls + 1
        /\ UNCHANGED <<provider, config>>

\* The body of the try of one attempt on what the backend call came to: the reply
\* text is unwrapped and stripped, cleaned of its fence and loaded as JSON.
\* ok: the attempt returns val; otherwise an exception reached the except branch.
TryBody(outcome) ==
    IF outcome.kind = "text"
    THEN JsonLoads(CleanMarkdownJsonBlock(Strip(outcome.text)))
    ELSE [ok |-> FALSE, val |-> PyNone]

\* A turn of the loop that keeps the parsed reply and goes on looping instead of
\* returning it.
AttemptKeepsLooping(outcome) ==
    /\ pc = "loop"
    /\ LoopCondition(attemps)
    /\ sent' = Append(sent, prompt)
    /\ outcomes' = Append(outcomes, outcome)
    /\ LET r == TryBody(outcome)
       IN  /\ result' = IF r.ok THEN r.val ELSE result
           /\ printed' = IF r.ok THEN printed ELSE printed \o ExceptPrints(provider)
           /\ attemps' = attemps + 1
           /\ UNCHANGED pc
    /\ UNCHANGED <<provider, config, args, language, prompt, error, calls, renders>>

\* One turn of the loop: one backend call, then the return of the parsed reply, or
\* the except branch.
Attempt(outcome) ==
    /\ pc = "loop"
    /\ LoopCondition(attemps)
    /\ sent' = Append(sent, prompt)
    /\ outcomes' = Append(outcomes, outcome)
    /\ LET r == TryBody(outcome)
       IN  IF r.ok
           THEN /\ pc' = "returned"
                /\ result' = r.val
                /\ UNCHANGED <<attemps, printed>>
           ELSE /\ printed' = printed \o ExceptPrints(provider)
                /\ attemps' = attemps + 1
                /\ UNCHANGED <<pc, result>>
    /\ UNCHANGED <<provider, config, args, language, prompt, error, calls, renders>>

\* After the loop: the final error when attemps == max_attempts; the function
\* ends without a return statement (None) otherwise.
AfterLoop ==
    /\ pc = "loop"
    /\ ~LoopCondition(attemps)
    /\ IF attemps = max_attempts
       THEN /\ pc' = "raised"
            /\ error' = [with |-> ProviderLabel(provider), after |-> max_attempts]
            /\ UNCHANGED result
       ELSE /\ pc' = "returned"
            /\ result' = PyNone
            /\ UNCHANGED error
    /\ UNCHANGED <<provider, config, args, language, prompt, attemps, sent, outcomes,
                   printed, calls, renders>>

(***************************************************************************)
(* providers/factory.py and the providers' constructors.                   *)
(***************************************************************************)
\* An is_configured that asks each variant for its API key alone.
IsConfiguredKeyOnly(p, cfg) ==
    CASE p = "openai" -> ~Falsy(cfg.openai_api_key)
      [] p = "google" -> ~Falsy(cfg.google_api_key)
      [] p = "azure" -> ~Falsy(cfg.azure_api_key)
      [] p = "ollama" -> TRUE

\* is_configured of each variant.
IsConfigured(p, cfg) ==
    CASE p = "openai" -> ~Falsy(cfg.openai_api_key)
      [] p = "google" -> ~Falsy(cfg.google_api_key)
      [] p = "azure" -> ~Falsy(cfg.azure_api_key) /\ ~Falsy(cfg.azure_endpoint)
      [] p = "ollama" -> ~Falsy(cfg.ollama_model)

\* The constructors that take (config, custom_prompts_path), as the factory calls
\* them; GoogleProvider and OllamaProvider take config alone (TypeError).
ConstructorTakesPromptsPath(p) == p \in {"openai", "azure"}

\* A factory that falls back on the first variant for an identifier of none.
CreateProviderFallsBack(provider_name, cfg) ==
    [ok |-> TRUE, text |-> <<>>, constructed |-> <<"openai">>]

\* A factory that returns the provider without asking is_configured.
CreateProviderUnchecked(provider_name, cfg) ==
    IF provider_name \notin Providers
    THEN [ok |-> FALSE,
          text |-> <<"Provider '", provider_name, "' not available. Available: ",
                     "openai, google, azure, ollama">>,
          constructed |-> <<>>]
    ELSE [ok |-> TRUE, text |-> <<>>, constructed |-> <<provider_name>>]

\* The text of the not-configured error.
NotConfiguredText(provider_name) ==
    <<"Provider '", provider_name, "' is not configured correctly. ",
      "Check your configuration settings.">>

\* AIProviderFactory.create_provider: the provider, or the exception's text;
\* constructed lists the providers instantiated on the way.
CreateProvider(provider_name, cfg) ==
    IF provider_name \notin Providers
    THEN [ok |-> FALSE,
          text |-> <<"Provider '", provider_name, "' not available. Available: ",
                     "openai, google, azure, ollama">>,
          constructed |-> <<>>]
    ELSE IF ~ConstructorTakesPromptsPath(provider_name)
    THEN [ok |-> FALSE,
          text |-> <<"__init__() takes 2 positional arguments but 3 were given">>,
          constructed |-> <<>>]
    ELSE IF ~IsConfigured(provider_name, cfg)
    THEN [ok |-> FALSE, text |-> NotConfiguredText(provider_name),
          constructed |-> <<provider_name>>]
    ELSE [ok |-> TRUE, text |-> <<>>, constructed |-> <<provider_name>>]

\* The constructors hand the credentials to the client library (openai.OpenAI,
\* openai.AzureOpenAI, genai.Client), which may refuse one that is None.
ClientMayRaise(p, cfg) ==
    CASE p = "openai" -> cfg.openai_api_key = None
      [] p = "google" -> cfg.google_api_key = None
      [] p = "azure" -> cfg.azure_api_key = None \/ cfg.azure_endpoint = None
      [] OTHER -> FALSE

ClientError(p) == [ok |-> FALSE, text |-> <<"Missing credentials">>, constructed |-> <<>>]

\* What a call of create_provider may come to.
CreateProviderOutcomes(provider_name, cfg) ==
    {CreateProvider(provider_name, cfg)}
        \cup (IF /\ provider_name \in Providers
                 /\ ConstructorTakesPromptsPath(provider_name)
                 /\ ClientMayRaise(provider_name, cfg)
              THEN {ClientError(provider_name)} ELSE {})

\* No call of the factory or of is_configured made yet.
FactoryIdle ==
    [call |-> "none", name |-> None, outcome |-> "none", text |-> <<>>,
     constructed |-> <<>>, value |-> FALSE]

\* The settings the factory is tried on: each credential absent (None), empty or
\* present.
FactoryConfigs ==
    {[FullConfig EXCEPT !.openai_api_key = ok, !.google_api_key = gk,
                        !.azure_api_key = ak, !.azure_endpoint = ae,
                        !.ollama_model = om] :
        ok \in {None, "", "sk-openai"}, gk \in {None, "google-key"},
        ak \in {"", "azure-key"}, ae \in {None, "https://azure.example"},
        om \in {None, "llama3"}}

\* The identifiers the factory is given: the four variants, None, and others.
FactoryNames == Providers \cup {None, "", "gemini", "OpenAI"}

\* Variant(config): a provider of variant p constructed directly, unless the
\* client library refuses the credential.
NewProvider(p) ==
    /\ \/ /\ provider' = p
          /\ factory' = [FactoryIdle EXCEPT !.call = "constructor", !.name = p,
                                            !.outcome = "returned", !.constructed = <<p>>]
       \/ /\ ClientMayRaise(p, config)
          /\ provider' = None
          /\ factory' = [FactoryIdle EXCEPT !.call = "constructor", !.name = p,
                                            !.outcome = "raised",
                                            !.text = ClientError(p).text]
    /\ UNCHANGED <<config, pc, args, language, prompt, attemps, sent, outcomes, printed,
                   result, error, calls, renders, parseVars, flowVars, repo0, cli>>

\* provider.is_configured() on the provider there is.
IsConfiguredCall ==
    /\ provider # None
    /\ factory' = [FactoryIdle EXCEPT !.call = "is_configured", !.name = provider,
                                      !.outcome = "returned",
                                      !.value = IsConfigured(provider, config)]
    /\ UNCHANGED <<providerVars, parseVars, flowVars, repo0, cli>>

\* AIProviderFactory.create_provider(provider_name, config)
CreateProviderCall(provider_name) ==
    /\ \E made \in CreateProviderOutcomes(provider_name, config) :
          /\ provider' = IF made.ok THEN provider_name ELSE None
          /\ factory' = [FactoryIdle EXCEPT !.call = "create_provider",
                                            !.name = provider_name,
                                            !.outcome = IF made.ok THEN "returned" ELSE "raised",
                                            !.text = made.text,
                                            !.constructed = made.constructed]
    /\ UNCHANGED <<config, pc, args, language, prompt, attemps, sent, outcomes, printed,
                   result, error, calls, renders, parseVars, flowVars, repo0, cli>>

(***************************************************************************)
(* git_utils.py: the repository is the sets of its staged, unstaged and    *)
(* untracked files, its commits and how many of them are pushed.           *)
(***************************************************************************)
\* The diff text of a set of files, over the files a, b and c.
FileDiff(S, f) == IF f \in S THEN <<"diff --git ", f>> ELSE <<>>

DiffOf(S) == FileDiff(S, "a") \o FileDiff(S, "b") \o FileDiff(S, "c") \o FileDiff(S, "L")

\* The files of 1 MB and more, and what is no regular file: the untracked diff
\* passes them over.
LargeFiles == {"L"}

\* AutoCommitAI._get_untracked_files_diff
UntrackedDiff(S, f) ==
    IF f \in S /\ f \notin LargeFiles THEN <<"\n+++ New file: ", f, "\n">> ELSE <<>>

GetUntrackedFilesDiff(S) ==
    UntrackedDiff(S, "a") \o UntrackedDiff(S, "b") \o UntrackedDiff(S, "c")
        \o UntrackedDiff(S, "L")

\* A check that takes the word of the status and does not look at the diff text.
CheckChangesTrustsStatus(include_all) ==
    IF include_all
    THEN IF repo.staged = {} /\ repo.unstaged = {} /\ repo.untracked = {}
         THEN [has_changes |-> FALSE, diff_content |-> <<>>]
         ELSE [has_changes |-> TRUE,
               diff_content |-> DiffOf(repo.staged \cup repo.unstaged)
                                    \o GetUntrackedFilesDiff(repo.untracked)]
    ELSE IF repo.staged = {}
         THEN [has_changes |-> FALSE, diff_content |-> <<>>]
         ELSE [has_changes |-> TRUE, diff_content |-> DiffOf(repo.staged)]

\* AutoCommitAI._check_changes: [has_changes, diff_content]
CheckChanges(include_all) ==
    IF include_all
    THEN IF repo.staged = {} /\ repo.unstaged = {} /\ repo.untracked = {}
         THEN [has_changes |-> FALSE, diff_content |-> <<>>]
         ELSE LET d == DiffOf(repo.staged \cup repo.unstaged)
                          \o GetUntrackedFilesDiff(repo.untracked)
              IN  [has_changes |-> Strip(d) # <<>>, diff_content |-> d]
    ELSE IF repo.staged = {}
         THEN [has_changes |-> FALSE, diff_content |-> <<>>]
         ELSE [has_changes |-> Strip(DiffOf(repo.staged)) # <<>>,
               diff_content |-> DiffOf(repo.staged)]

\* Python truthiness of a parsed JSON value.
Truthy(v) ==
    CASE v.t = "str" -> v.s # <<>>
      [] v.t = "obj" -> DOMAIN v.m # {}
      [] OTHER -> FALSE

\* str() of a parsed JSON value, as text.
StrOf(v) ==
    CASE v.t = "str" -> v.s
      [] v.t = "obj" -> <<"{...}">>
      [] OTHER -> <<"None">>

\* GitUtils.commit_with_message: the commit message text built of the generated
\* message; ok is FALSE when building it, or committing what is no string, raises.
CommitText(message) ==
    IF message.t = "obj"
    THEN LET title == IF <<"title">> \in DOMAIN message.m
                      THEN message.m[<<"title">>] ELSE [t |-> "str", s |-> <<>>]
             described == /\ <<"description">> \in DOMAIN message.m
                          /\ Truthy(message.m[<<"description">>])
         IN  IF title.t # "str" THEN [ok |-> FALSE, text |-> <<>>]
             ELSE [ok |-> TRUE,
                   text |-> IF described
                            THEN title.s \o <<"\n\n">> \o StrOf(message.m[<<"description">>])
                            ELSE title.s]
    ELSE [ok |-> TRUE, text |-> StrOf(message)]

(***************************************************************************)
(* core.py: AutoCommitAI.generate_and_commit                               *)
(***************************************************************************)
\* The answers of the user to one confirmation prompt that are neither yes nor no.
MaxInvalidAnswers == 1

NoText == [t |-> "null"]

Text(chunks) == [t |-> "text", s |-> chunks]

ResultInit == [success |-> FALSE, commit_hash |-> 0, message |-> NoText, error |-> NoText]

Stdout(chunks) == [stream |-> "stdout", text |-> chunks]

Stderr(chunks) == [stream |-> "stderr", text |-> chunks]

\* The text of the exception a provider raised.
ErrorText(e) ==
    <<"Error generating commit message with ", e.with, " after ", "3", " attempts">>

\* What a subscript that raises gives in place of a value.
Raised == [t |-> "raised"]

\* message[key]: the value of a dict's key; KeyError on a dict that has no such
\* key, TypeError on what is no dict.
Subscript(message, key) ==
    IF message.t = "obj" /\ key \in DOMAIN message.m THEN message.m[key] ELSE Raised

\* A display that reads the title with .get and raises on nothing.
DisplayNeverRaises(message) == FALSE

\* _display_commit_message reads commit_message['title'] and raises when the
\* subscript does.
DisplayRaises(message) == Subscript(message, <<"title">>) = Raised

DisplayErrorText(message) ==
    IF message.t = "obj" THEN <<"'title'">>
    ELSE IF message.t = "str" THEN <<"string indices must be integers">>
    ELSE <<"'NoneType' object is not subscriptable">>

\* A handler that prints the error and returns the result as it stands.
ExceptAfterPrintsOnly(before, chunks) ==
    /\ console' = Append(console \o before, Stderr(chunks))
    /\ res' = res
    /\ fpc' = "done"

\* except Exception as e, the outer handler and the one around the commit alike:
\* after what was printed before, the error is printed and stored, and the result
\* is returned.
ExceptAfter(before, chunks) ==
    /\ console' = Append(console \o before, Stderr(chunks))
    /\ res' = [res EXCEPT !.error = Text(chunks)]
    /\ fpc' = "done"

OuterExcept(chunks) == ExceptAfter(<<>>, chunks)

\* How many times the user was asked question q.
RECURSIVE Count(_, _)
Count(seq, q) ==
    IF seq = <<>> THEN 0 ELSE (IF Head(seq) = q THEN 1 ELSE 0) + Count(Tail(seq), q)

\* What the user gives a confirmation prompt: y, n, something else, or nothing
\* (input() raises EOFError).
Answers == {"y", "n", "other", "eof"}

\* A flow that stages every change once the message is accepted, asked to or not.
AfterAcceptAlwaysStages == "stage"

\* Where the flow goes once the message is accepted.
AfterAccept == IF opts.include_all THEN "stage" ELSE "commit"

\* Nothing typed at the prompt of stage_interactive.
NoSelection == [kind |-> "none", parts |-> <<>>]

\* main not run: no arguments, no exit code.
CliOff ==
    [action |-> "none", output |-> "text", path_ok |-> TRUE, at |-> "off",
     exit_code |-> -1, raised |-> FALSE, interrupted |-> FALSE, selection |-> NoSelection]

\* The factory not called and main not run; the repository is as it starts.
EntryOff ==
    /\ repo0 = repo
    /\ factory = FactoryIdle
    /\ cli = CliOff

\* _validate_repository, and _display_repository_status when show_status.
Validate ==
    /\ fpc = "start"
    /\ IF ~repo.is_repo
       THEN OuterExcept(<<"Not in a Git repository: ", ".">>)
       ELSE IF opts.show_status
       THEN \/ /\ console' = Append(console, Stdout(<<"REPOSITORY STATUS">>))
               /\ fpc' = "provider"
               /\ UNCHANGED res
            \/ OuterExcept(<<"Error getting repository status: ">>)
       ELSE /\ fpc' = "provider"
            /\ UNCHANGED <<console, res>>
    /\ UNCHANGED <<answered, opts, repo, commit_message, asked, providerVars, parseVars, entryVars>>

\* _get_ai_provider
GetAiProvider ==
    /\ fpc = "provider"
    /\ LET provider_name == Or(opts.provider_name, config.default_provider)
       IN  \E made \in CreateProviderOutcomes(provider_name, config) :
           IF made.ok
           THEN /\ provider' = provider_name
                /\ fpc' = "check"
                /\ UNCHANGED <<console, res>>
           ELSE /\ OuterExcept(<<"Error configuring AI provider '", provider_name, "': ">>
                                 \o made.text)
                /\ UNCHANGED provider
    /\ UNCHANGED <<answered, opts, repo, commit_message, asked, parseVars, entryVars, config, pc, args,
                   language, prompt, attemps, sent, outcomes, printed, result, error,
                   calls, renders>>

\* _check_changes, then the start of generate_commit_message.
CheckForChanges ==
    /\ fpc = "check"
    /\ \/ /\ OuterExcept(<<"Error getting repository status: ">>)
          /\ UNCHANGED providerVars
       \/ LET c == CheckChanges(opts.include_all)
              message == IF opts.include_all THEN <<"No changes to commit.">>
                         ELSE <<"No staged changes found. Please stage your changes or use --all flag.">>
          IN  IF ~c.has_changes
              THEN /\ console' = Append(console, Stdout(message))
                   /\ res' = [res EXCEPT !.message = Text(message)]
                   /\ fpc' = "done"
                   /\ UNCHANGED providerVars
              ELSE /\ console' = Append(console, Stdout(<<"Generating commit message with ", provider, "...">>))
                   /\ fpc' = "generating"
                   /\ Generate(c.diff_content, opts.language)
                   /\ UNCHANGED res
    /\ UNCHANGED <<answered, opts, repo, commit_message, asked, parseVars, entryVars>>

\* A reply with a title and no description.
ReplyNoDescription == <<LB>> \o Member("title", <<"x">>) \o <<RB>>

\* What a backend call comes to within the flow.
FlowBackendOutcomes ==
    BackendOutcomes \cup {[kind |-> "text", text |-> ReplyNoDescription]}

\* The turns of the provider's loop within the flow.
FlowBackendCall ==
    /\ fpc = "generating"
    /\ \E o \in FlowBackendOutcomes : Attempt(o)
    /\ UNCHANGED <<parseVars, flowVars, entryVars>>

FlowLoopExit ==
    /\ fpc = "generating"
    /\ AfterLoop
    /\ UNCHANGED <<parseVars, flowVars, entryVars>>

\* generate_commit_message has ended: its exception is reported, or its value is
\* displayed and, unless auto_confirm, the confirmation is asked for.
GenerateEnded ==
    /\ fpc = "generating"
    /\ pc \in {"returned", "raised"}
    /\ IF pc = "raised"
       THEN /\ ExceptAfter(<<>>, <<"Error generating commit message: ">> \o ErrorText(error))
            /\ UNCHANGED <<commit_message, asked>>
       ELSE /\ commit_message' = result
            /\ IF DisplayRaises(result)
               THEN /\ ExceptAfter(<<Stdout(<<"GENERATED COMMIT MESSAGE">>)>>,
                                   DisplayErrorText(result))
                    /\ UNCHANGED asked
               ELSE /\ console' = console \o <<Stdout(<<"GENERATED COMMIT MESSAGE">>),
                                              Stdout(<<"Title: ">> \o StrOf(Subscript(result, <<"title">>)))>>
                    /\ fpc' = IF opts.auto_confirm THEN AfterAccept ELSE "confirm"
                    /\ asked' = IF opts.auto_confirm THEN asked
                                ELSE Append(asked, "Use this commit message?")
                    /\ UNCHANGED res
    /\ UNCHANGED <<answered, opts, repo, providerVars, parseVars, entryVars>>

\* A flow that asks for the confirmation and goes on whatever the answer.
ConfirmMessageIgnoresAnswer(answer) ==
    /\ fpc = "confirm"
    /\ CASE answer = "y" ->
              /\ fpc' = AfterAccept
              /\ UNCHANGED <<console, res, asked>>
         [] answer = "n" ->
              /\ fpc' = AfterAccept
              /\ UNCHANGED <<console, res, asked>>
         [] answer = "other" ->
              /\ Count(asked, "Use this commit message?") <= MaxInvalidAnswers
              /\ console' = Append(console, Stdout(<<"Please reply with 'y' to confirm or 'n' to cancel.">>))
              /\ asked' = Append(asked, "Use this commit message?")
              /\ UNCHANGED <<fpc, res>>
         [] answer = "eof" ->
              /\ OuterExcept(<<"EOF when reading a line">>)
              /\ UNCHANGED asked
    /\ answered' = Append(answered, answer)
    /\ UNCHANGED <<opts, repo, commit_message, providerVars, parseVars, entryVars>>

\* _get_user_confirmation on the generated message.
ConfirmMessage(answer) ==
    /\ fpc = "confirm"
    /\ CASE answer = "y" ->
              /\ fpc' = AfterAccept
              /\ UNCHANGED <<console, res, asked>>
         [] answer = "n" ->
              /\ console' = Append(console, Stdout(<<"Commit cancelled.">>))
              /\ res' = [res EXCEPT !.message = Text(<<"Commit cancelled by user">>)]
              /\ fpc' = "done"
              /\ UNCHANGED asked
         [] answer = "other" ->
              /\ Count(asked, "Use this commit message?") <= MaxInvalidAnswers
              /\ console' = Append(console, Stdout(<<"Please reply with 'y' to confirm or 'n' to cancel.">>))
              /\ asked' = Append(asked, "Use this commit message?")
              /\ UNCHANGED <<fpc, res>>
         [] answer = "eof" ->
              /\ OuterExcept(<<"EOF when reading a line">>)
              /\ UNCHANGED asked
    /\ answered' = Append(answered, answer)
    /\ UNCHANGED <<opts, repo, commit_message, providerVars, parseVars, entryVars>>

\* git_utils.stage_all_changes: git add -u, then git add -A; either may fail.
StageAllChanges ==
    /\ fpc = "stage"
    /\ \/ /\ repo' = [repo EXCEPT !.staged = repo.staged \cup repo.unstaged \cup repo.untracked,
                                  !.unstaged = {}, !.untracked = {}]
          /\ console' = Append(console, Stdout(<<"Staging all changes...">>))
          /\ fpc' = "commit"
          /\ UNCHANGED res
       \/ /\ ExceptAfter(<<Stdout(<<"Staging all changes...">>)>>, <<"Error staging changes: ">>)
          /\ UNCHANGED repo
       \/ /\ ExceptAfter(<<Stdout(<<"Staging all changes...">>)>>, <<"Error staging changes: ">>)
          /\ repo' = [repo EXCEPT !.staged = repo.staged \cup repo.unstaged, !.unstaged = {}]
    /\ UNCHANGED <<answered, opts, commit_message, asked, providerVars, parseVars, entryVars>>

\* A commit step that goes on to the question about the push, auto_confirm or not.
CreateCommitAlwaysOffersPush ==
    /\ fpc = "commit"
    /\ LET built == CommitText(commit_message)
       IN  IF repo.staged = {}
           THEN /\ ExceptAfter(<<>>, <<"Error creating commit: ", "No staged changes to commit">>)
                /\ UNCHANGED <<repo, asked>>
           ELSE IF ~built.ok
           THEN /\ ExceptAfter(<<>>, <<"Error creating commit: ", "TypeError">>)
                /\ UNCHANGED <<repo, asked>>
           ELSE \/ /\ ExceptAfter(<<>>, <<"Error creating commit: ", "Error committing changes: ">>)
                   /\ UNCHANGED <<repo, asked>>
                \/ /\ repo' = [repo EXCEPT
                                  !.commits = Append(repo.commits,
                                                     [message |-> built.text, files |-> repo.staged]),
                                  !.staged = {}]
                   /\ res' = [res EXCEPT !.success = TRUE,
                                         !.commit_hash = Len(repo.commits) + 1,
                                         !.message = commit_message]
                   /\ IF FALSE
                      THEN /\ console' = Append(console, Stdout(<<"Commit successful! Hash: ">>))
                           /\ fpc' = "done"
                           /\ UNCHANGED asked
                      ELSE /\ console' = console \o <<Stdout(<<"Commit successful!">>),
                                                     Stdout(<<"Recent commits:">>)>>
                           /\ asked' = Append(asked, "Would you like to push the changes?")
                           /\ fpc' = "push_confirm"
    /\ UNCHANGED <<answered, opts, commit_message, providerVars, parseVars, entryVars>>

\* git_utils.commit_with_message and what follows the commit: with auto_confirm
\* the hash is printed; otherwise _handle_post_commit_actions shows the history
\* and asks whether to push.
CreateCommit ==
    /\ fpc = "commit"
    /\ LET built == CommitText(commit_message)
       IN  IF repo.staged = {}
           THEN /\ ExceptAfter(<<>>, <<"Error creating commit: ", "No staged changes to commit">>)
                /\ UNCHANGED <<repo, asked>>
           ELSE IF ~built.ok
           THEN /\ ExceptAfter(<<>>, <<"Error creating commit: ", "TypeError">>)
                /\ UNCHANGED <<repo, asked>>
           ELSE \/ /\ ExceptAfter(<<>>, <<"Error creating commit: ", "Error committing changes: ">>)
                   /\ UNCHANGED <<repo, asked>>
                \/ /\ repo' = [repo EXCEPT
                                  !.commits = Append(repo.commits,
                                                     [message |-> built.text, files |-> repo.staged]),
                                  !.staged = {}]
                   /\ res' = [res EXCEPT !.success = TRUE,
                                         !.commit_hash = Len(repo.commits) + 1,
                                         !.message = commit_message]
                   /\ IF opts.auto_confirm
                      THEN /\ console' = Append(console, Stdout(<<"Commit successful! Hash: ">>))
                           /\ fpc' = "done"
                           /\ UNCHANGED asked
                      ELSE /\ console' = console \o <<Stdout(<<"Commit successful!">>),
                                                     Stdout(<<"Recent commits:">>)>>
                           /\ asked' = Append(asked, "Would you like to push the changes?")
                           /\ fpc' = "push_confirm"
    /\ UNCHANGED <<answered, opts, commit_message, providerVars, parseVars, entryVars>>

\* _get_user_confirmation on the push; an exception here is caught by the handler
\* around the commit.
ConfirmPush(answer) ==
    /\ fpc = "push_confirm"
    /\ CASE answer = "y" ->
              /\ fpc' = "push"
              /\ UNCHANGED <<console, res, asked>>
         [] answer = "n" ->
              /\ fpc' = "done"
              /\ UNCHANGED <<console, res, asked>>
         [] answer = "other" ->
              /\ Count(asked, "Would you like to push the changes?") <= MaxInvalidAnswers
              /\ console' = Append(console, Stdout(<<"Please reply with 'y' to confirm or 'n' to cancel.">>))
              /\ asked' = Append(asked, "Would you like to push the changes?")
              /\ UNCHANGED <<fpc, res>>
         [] answer = "eof" ->
              /\ ExceptAfter(<<>>, <<"Error creating commit: ", "EOF when reading a line">>)
              /\ UNCHANGED asked
    /\ answered' = Append(answered, answer)
    /\ UNCHANGED <<opts, repo, commit_message, providerVars, parseVars, entryVars>>

\* A push whose failure takes the success of the commit back and is returned as
\* the error of the result.
PushChangesFailureIsError ==
    /\ fpc = "push"
    /\ \/ /\ repo' = [repo EXCEPT !.pushed = Len(repo.commits)]
          /\ console' = console \o <<Stdout(<<"Attempting to push changes...">>),
                                     Stdout(<<"Push successful!">>),
                                     Stdout(<<"Changes pushed successfully!">>)>>
          /\ UNCHANGED res
       \/ /\ console' = console \o <<Stdout(<<"Attempting to push changes...">>),
                                     Stderr(<<"Error pushing changes: ">>),
                                     Stdout(<<"You can push manually later with: git push">>)>>
          /\ res' = [res EXCEPT !.success = FALSE, !.commit_hash = 0,
                                !.error = Text(<<"Error pushing changes: ">>)]
          /\ UNCHANGED repo
    /\ fpc' = "done"
    /\ UNCHANGED <<answered, opts, commit_message, asked, providerVars, parseVars, entryVars>>

\* git_utils.push_changes: its exception is printed and goes no further.
PushChanges ==
    /\ fpc = "push"
    /\ \/ /\ repo' = [repo EXCEPT !.pushed = Len(repo.commits)]
          /\ console' = console \o <<Stdout(<<"Attempting to push changes...">>),
                                     Stdout(<<"Push successful!">>),
                                     Stdout(<<"Changes pushed successfully!">>)>>
       \/ /\ console' = console \o <<Stdout(<<"Attempting to push changes...">>),
                                     Stderr(<<"Error pushing changes: ">>),
                                     Stdout(<<"You can push manually later with: git push">>)>>
          /\ UNCHANGED repo
    /\ fpc' = "done"
    /\ UNCHANGED <<answered, opts, commit_message, res, asked, providerVars, parseVars, entryVars>>

\* The flow not in use.
FlowOff ==
    /\ opts = [provider_name |-> None, include_all |-> FALSE, language |-> None,
               show_status |-> FALSE, auto_confirm |-> FALSE]
    /\ repo = [is_repo |-> TRUE, staged |-> {}, unstaged |-> {}, untracked |-> {},
               commits |-> <<>>, pushed |-> 0]
    /\ fpc = "off"
    /\ commit_message = Unset
    /\ res = ResultInit
    /\ asked = <<>>
    /\ answered = <<>>
    /\ console = <<>>

\* The settings, arguments and repositories the flow is run on.
FlowConfigs ==
    {FullConfig, [FullConfig EXCEPT !.azure_endpoint = ""],
     [FullConfig EXCEPT !.default_provider = None]}

FlowProviderNames == {None, "azure", "ollama", "gemini"}

InitFlow ==
    /\ provider = None
    /\ config \in FlowConfigs
    /\ pc = "idle"
    /\ args = [diff_content |-> <<>>, language |-> None]
    /\ language = None
    /\ prompt = <<>>
    /\ attemps = 0
    /\ sent = <<>>
    /\ outcomes = <<>>
    /\ printed = <<>>
    /\ result = Unset
    /\ error = NoError
    /\ calls = 0
    /\ renders = <<>>
    /\ parseIn = <<>>
    /\ parseOut = <<>>
    /\ opts \in [provider_name : FlowProviderNames, include_all : BOOLEAN,
                 language : {None}, show_status : BOOLEAN, auto_confirm : BOOLEAN]
    /\ repo \in [is_repo : BOOLEAN, staged : SUBSET {"a"}, unstaged : SUBSET {"b"},
                 untracked : SUBSET {"c", "L"}, commits : {<<>>}, pushed : {0}]
    /\ fpc = "start"
    /\ commit_message = Unset
    /\ res = ResultInit
    /\ asked = <<>>
    /\ answered = <<>>
    /\ console = <<>>
    /\ EntryOff

NextFlow ==
    \/ Validate
    \/ GetAiProvider
    \/ CheckForChanges
    \/ FlowBackendCall
    \/ FlowLoopExit
    \/ GenerateEnded
    \/ \E a \in Answers : ConfirmMessage(a)
    \/ StageAllChanges
    \/ CreateCommit
    \/ \E a \in Answers : ConfirmPush(a)
    \/ PushChanges

SpecFlow == InitFlow /\ [][NextFlow]_vars

(***************************************************************************)
(* core.py: AutoCommitAI.preview_commit_message                            *)
(***************************************************************************)
\* except Exception as e of the preview: the error is printed and None returned.
PreviewExcept(before, chunks) ==
    /\ console' = Append(console \o before,
                         Stderr(<<"Error generating commit message preview: ">> \o chunks))
    /\ commit_message' = PyNone
    /\ cli' = [cli EXCEPT !.raised = TRUE]
    /\ fpc' = "p_done"

\* _validate_repository
PreviewValidate ==
    /\ fpc = "p_start"
    /\ IF ~repo.is_repo
       THEN PreviewExcept(<<>>, <<"Not in a Git repository: ", ".">>)
       ELSE /\ fpc' = "p_provider"
            /\ UNCHANGED <<console, commit_message, cli>>
    /\ UNCHANGED <<opts, repo, res, asked, answered, providerVars, parseVars, repo0, factory>>

\* _get_ai_provider
PreviewGetAiProvider ==
    /\ fpc = "p_provider"
    /\ LET provider_name == Or(opts.provider_name, config.default_provider)
       IN  \E made \in CreateProviderOutcomes(provider_name, config) :
           IF made.ok
           THEN /\ provider' = provider_name
                /\ fpc' = "p_check"
                /\ UNCHANGED <<console, commit_message, cli>>
           ELSE /\ PreviewExcept(<<>>, <<"Error configuring AI provider '", provider_name, "': ">>
                                       \o made.text)
                /\ UNCHANGED provider
    /\ UNCHANGED <<opts, repo, res, asked, answered, parseVars, repo0, factory, config, pc,
                   args, language, prompt, attemps, sent, outcomes, printed, result, error,
                   calls, renders>>

\* _check_changes, then the start of generate_commit_message.
PreviewCheckForChanges ==
    /\ fpc = "p_check"
    /\ \/ /\ PreviewExcept(<<>>, <<"Error getting repository status: ">>)
          /\ UNCHANGED providerVars
       \/ LET c == CheckChanges(opts.include_all)
          IN  IF ~c.has_changes
              THEN /\ console' = Append(console,
                          Stdout(<<"No changes found to generate commit message for.">>))
                   /\ commit_message' = PyNone
                   /\ fpc' = "p_done"
                   /\ UNCHANGED <<providerVars, cli>>
              ELSE /\ console' = Append(console,
                          Stdout(<<"Generating commit message preview with ", provider, "...">>))
                   /\ fpc' = "p_generating"
                   /\ Generate(c.diff_content, opts.language)
                   /\ UNCHANGED <<commit_message, cli>>
    /\ UNCHANGED <<opts, repo, res, asked, answered, parseVars, repo0, factory>>

\* The turns of the provider's loop within the preview.
PreviewBackendCall ==
    /\ fpc = "p_generating"
    /\ \E o \in FlowBackendOutcomes : Attempt(o)
    /\ UNCHANGED <<parseVars, flowVars, entryVars>>

PreviewLoopExit ==
    /\ fpc = "p_generating"
    /\ AfterLoop
    /\ UNCHANGED <<parseVars, flowVars, entryVars>>

\* generate_commit_message has ended: its value is displayed and returned; its
\* exception, or that of the display, is printed and None returned.
PreviewGenerateEnded ==
    /\ fpc = "p_generating"
    /\ pc \in {"returned", "raised"}
    /\ IF pc = "raised"
       THEN PreviewExcept(<<>>, ErrorText(error))
       ELSE IF DisplayRaises(result)
       THEN PreviewExcept(<<Stdout(<<"GENERATED COMMIT MESSAGE">>)>>, DisplayErrorText(result))
       ELSE /\ console' = console \o <<Stdout(<<"GENERATED COMMIT MESSAGE">>),
                                      Stdout(<<"Title: ">> \o StrOf(Subscript(result, <<"title">>)))>>
            /\ commit_message' = result
            /\ fpc' = "p_done"
            /\ UNCHANGED cli
    /\ UNCHANGED <<opts, repo, res, asked, answered, providerVars, parseVars, repo0, factory>>


(***************************************************************************)
(* cli.py: main, one invocation of the command line.                       *)
(***************************************************************************)
CliActions == {"commit", "preview", "status", "stage", "history", "branches"}

\* print_json_output
Json(chunks) == Stdout(<<"{">> \o chunks \o <<"}">>)

\* return code, out of main.
Exit(code, raised) ==
    cli' = [cli EXCEPT !.at = "exited", !.exit_code = code, !.raised = raised]

\* A main that sends the preview through the commit flow.
MainStartPreviewCommits ==
    /\ cli.at = "start"
    /\ IF ~cli.path_ok
       THEN /\ console' = Append(console, Stderr(<<"Invalid argument: ",
                                                   "Repository path does not exist: ">>))
            /\ Exit(2, TRUE)
            /\ UNCHANGED fpc
       ELSE /\ cli' = [cli EXCEPT !.at = "running"]
            /\ fpc' = CASE cli.action = "commit" -> "start"
                        [] cli.action = "preview" -> "start"
                        [] OTHER -> fpc
            /\ UNCHANGED console
    /\ UNCHANGED <<opts, repo, commit_message, res, asked, answered, providerVars,
                   parseVars, repo0, factory>>

\* validate_repository_path, Config.from_env, AutoCommitAI(config, repo_path) and
\* the choice of the action; ValueError is caught at the end of main.
MainStart ==
    /\ cli.at = "start"
    /\ IF ~cli.path_ok
       THEN /\ console' = Append(console, Stderr(<<"Invalid argument: ",
                                                   "Repository path does not exist: ">>))
            /\ Exit(2, TRUE)
            /\ UNCHANGED fpc
       ELSE /\ cli' = [cli EXCEPT !.at = "running"]
            /\ fpc' = CASE cli.action = "commit" -> "start"
                        [] cli.action = "preview" -> "p_start"
                        [] OTHER -> fpc
            /\ UNCHANGED console
    /\ UNCHANGED <<opts, repo, commit_message, res, asked, answered, providerVars,
                   parseVars, repo0, factory>>

\* What the actions that only read the repository leave alone.
readOnlyFrame ==
    <<opts, repo, fpc, commit_message, res, asked, answered, providerVars, parseVars,
      repo0, factory>>

\* The errors of get_repository_info: _validate_repository when this is no
\* repository, the accessor's otherwise.
StatusErrors ==
    IF repo.is_repo THEN {<<"Error getting repository status: ">>}
    ELSE {<<"Not in a Git repository: ", ".">>}

\* args.status: get_repository_info returns the error it caught under "error",
\* print_repository_status prints it, and main returns 0.
StatusAction ==
    /\ cli.at = "running" /\ cli.action = "status"
    /\ \/ /\ repo.is_repo
          /\ console' = Append(console, IF cli.output = "json"
                                        THEN Json(<<"status", "branches", "recent_commits">>)
                                        ELSE Stdout(<<"REPOSITORY STATUS">>))
          /\ Exit(0, FALSE)
       \/ \E e \in StatusErrors :
             /\ console' = Append(console, IF cli.output = "json"
                                           THEN Json(<<"error">> \o e)
                                           ELSE Stderr(<<"Error: ">> \o e))
             /\ Exit(0, TRUE)
    /\ UNCHANGED readOnlyFrame

\* args.history and args.branches: get_commit_history, get_branches. As JSON the
\* error is printed and 1 returned; as text print_commit_history and
\* print_branch_info print the error they caught and main returns 0.
Listing(action, title, failure) ==
    /\ cli.at = "running"
    /\ \/ /\ repo.is_repo
          /\ console' = Append(console, IF cli.output = "json" THEN Json(<<action>>)
                                        ELSE Stdout(<<title>>))
          /\ Exit(0, FALSE)
       \/ IF cli.output = "json"
          THEN /\ console' = Append(console, Json(<<"error", failure>>))
               /\ Exit(1, TRUE)
          ELSE /\ console' = Append(console, Stderr(<<failure>>))
               /\ Exit(0, TRUE)
    /\ UNCHANGED readOnlyFrame

HistoryAction ==
    /\ cli.action = "history"
    /\ Listing("history", "RECENT COMMIT HISTORY", "Error getting commit history: ")

BranchesAction ==
    /\ cli.action = "branches"
    /\ Listing("branches", "BRANCH INFORMATION", "Error getting branch information: ")

\* handle_preview_action
PreviewExit ==
    /\ cli.at = "running" /\ cli.action = "preview" /\ fpc = "p_done"
    /\ console' = IF cli.output = "json"
                  THEN Append(console, Json(<<"preview", "success">>))
                  ELSE console
    /\ Exit(IF Truthy(commit_message) THEN 0 ELSE 1, cli.raised)
    /\ UNCHANGED readOnlyFrame

\* handle_commit_action
CommitExit ==
    /\ cli.at = "running" /\ cli.action = "commit" /\ fpc = "done"
    /\ console' = IF cli.output = "json"
                  THEN Append(console, Json(<<"success", "commit_hash", "message", "error">>))
                  ELSE console
    /\ Exit(IF res.success THEN 0 ELSE 1, res.error # NoText)
    /\ UNCHANGED readOnlyFrame

\* handle_stage_action on what stage_interactive returned, after what it printed.
StageReturn(success, raised, shown) ==
    /\ console' = console \o shown
                    \o (IF cli.output = "json" THEN <<Json(<<"staged">>)>> ELSE <<>>)
    /\ Exit(IF success THEN 0 ELSE 1, raised)

\* stage_interactive up to its prompt: the status is read and the files listed.
StageStart ==
    /\ cli.at = "running" /\ cli.action = "stage"
    /\ \/ /\ StageReturn(FALSE, TRUE, <<Stderr(<<"Error during interactive staging: ">>)>>)
          /\ UNCHANGED asked
       \/ /\ repo.is_repo
          /\ IF repo.unstaged \cup repo.untracked = {}
             THEN /\ StageReturn(FALSE, FALSE, <<Stdout(<<"No unstaged files to stage.">>)>>)
                  /\ UNCHANGED asked
             ELSE /\ console' = Append(console, Stdout(<<"Files available for staging:">>))
                  /\ asked' = Append(asked, "Enter file numbers to stage")
                  /\ cli' = [cli EXCEPT !.at = "staging"]
    /\ UNCHANGED <<opts, repo, fpc, commit_message, res, answered, providerVars, parseVars,
                   repo0, factory>>

\* The repository with the files S staged.
Staged(r, S) ==
    [r EXCEPT !.staged = r.staged \cup S, !.unstaged = r.unstaged \ S,
              !.untracked = r.untracked \ S]

(***************************************************************************)
(* The text typed at the prompt of stage_interactive: its parts between    *)
(* commas, each the sequence of its tokens, a number, a dash or a word.    *)
(***************************************************************************)
IntTok(n) == [t |-> "int", n |-> n, s |-> ""]

Dash == [t |-> "dash", n |-> 0, s |-> ""]

Word(w) == [t |-> "word", n |-> 0, s |-> w]

Typed(parts) == [kind |-> "text", parts |-> parts]

\* input() raises EOFError.
EndOfInput == [kind |-> "eof", parts |-> <<>>]

TypedAll == Typed(<<<<Word("all")>>>>)

\* The selections given at the prompt of the command line: all, numbers of listed
\* files, what is no number, or nothing.
Selections ==
    {TypedAll, EndOfInput, Typed(<<<<Word("x")>>>>), Typed(<<<<IntTok(1)>>>>),
     Typed(<<<<IntTok(2)>>>>), Typed(<<<<IntTok(1)>>, <<IntTok(2)>>>>)}

\* The files of a set in the order Git lists them.
Listed(S) ==
    (IF "a" \in S THEN <<"a">> ELSE <<>>) \o (IF "b" \in S THEN <<"b">> ELSE <<>>)
        \o (IF "c" \in S THEN <<"c">> ELSE <<>>) \o (IF "L" \in S THEN <<"L">> ELSE <<>>)

\* seq[idx] of Python: from the end for a negative index, IndexError out of range.
PyIndex(seq, idx) ==
    IF idx >= 0 /\ idx < Len(seq) THEN [ok |-> TRUE, val |-> seq[idx + 1]]
    ELSE IF idx < 0 /\ -idx <= Len(seq) THEN [ok |-> TRUE, val |-> seq[Len(seq) + idx + 1]]
    ELSE [ok |-> FALSE, val |-> ""]

\* One part of the selection: [ok, files].  With a dash, `start, end = map(int,
\* part.split("-"))` takes two numbers around one dash, and ValueError otherwise;
\* without, int(part) takes one number.  Each number i is looked up as
\* all_files[i - 1].
ParsePart(part, all_files) ==
    IF \E i \in 1..Len(part) : part[i] = Dash
    THEN IF Len(part) = 3 /\ part[1].t = "int" /\ part[2] = Dash /\ part[3].t = "int"
         THEN LET range == part[1].n .. part[3].n
              IN  [ok |-> \A i \in range : PyIndex(all_files, i - 1).ok,
                   files |-> {PyIndex(all_files, i - 1).val : i \in range}]
         ELSE [ok |-> FALSE, files |-> {}]
    ELSE IF Len(part) = 1 /\ part[1].t = "int"
         THEN [ok |-> PyIndex(all_files, part[1].n - 1).ok,
               files |-> {PyIndex(all_files, part[1].n - 1).val}]
         ELSE [ok |-> FALSE, files |-> {}]

\* files_to_stage of the selection, or the ValueError or IndexError of a part.
ParseSelection(selection, all_files) ==
    [ok |-> \A k \in 1..Len(selection.parts) : ParsePart(selection.parts[k], all_files).ok,
     files |-> UNION {ParsePart(selection.parts[k], all_files).files :
                         k \in 1..Len(selection.parts)}]

\* return of stage_interactive after a selection, and handle_stage_action on it.
StageExit(selection, success, raised, shown) ==
    /\ console' = console \o shown
                    \o (IF cli.output = "json" THEN <<Json(<<"staged">>)>> ELSE <<>>)
    /\ cli' = [cli EXCEPT !.at = "exited", !.exit_code = IF success THEN 0 ELSE 1,
                          !.raised = raised, !.selection = selection]

\* stage_interactive from its prompt on: the selection is read and staged.
StageSelect(selection) ==
    /\ cli.at = "staging"
    /\ LET all_files == Listed(repo.unstaged) \o Listed(repo.untracked)
           parsed == ParseSelection(selection, all_files)
       IN  CASE selection = EndOfInput ->
                  /\ answered' = Append(answered, "eof")
                  /\ StageExit(selection, FALSE, TRUE,
                               <<Stderr(<<"Error during interactive staging: ">>)>>)
                  /\ UNCHANGED <<repo, asked>>
             [] selection = TypedAll ->
                  /\ answered' = Append(answered, "all")
                  /\ \/ /\ repo' = Staged(repo, repo.unstaged \cup repo.untracked)
                        /\ StageExit(selection, TRUE, FALSE, <<Stdout(<<"Staged all files.">>)>>)
                     \/ /\ StageExit(selection, FALSE, TRUE,
                                     <<Stderr(<<"Error during interactive staging: ">>)>>)
                        /\ UNCHANGED repo
                  /\ UNCHANGED asked
             [] selection \notin {EndOfInput, TypedAll} /\ parsed.ok ->
                  /\ answered' = Append(answered, "numbers")
                  /\ \/ /\ repo' = Staged(repo, parsed.files)
                        /\ StageExit(selection, TRUE, FALSE, <<Stdout(<<"Staged files.">>)>>)
                     \/ /\ StageExit(selection, FALSE, TRUE,
                                     <<Stderr(<<"Error during interactive staging: ">>)>>)
                        /\ UNCHANGED repo
                  /\ UNCHANGED asked
             [] OTHER ->
                  /\ Count(asked, "Enter file numbers to stage") <= MaxInvalidAnswers
                  /\ answered' = Append(answered, "invalid")
                  /\ console' = Append(console, Stdout(<<"Invalid selection. Please try again.">>))
                  /\ asked' = Append(asked, "Enter file numbers to stage")
                  /\ cli' = [cli EXCEPT !.selection = selection]
                  /\ UNCHANGED repo
    /\ UNCHANGED <<opts, fpc, commit_message, res, providerVars, parseVars, repo0, factory>>

\* What the repository may be when KeyboardInterrupt is raised: as it is, or with
\* the Git command under way done (git add -u, git add -A, the commit, the push,
\* the staging of the selection).
InterruptedRepos ==
    {repo}
      \cup (IF fpc = "stage"
            THEN {Staged(repo, repo.unstaged), Staged(repo, repo.unstaged \cup repo.untracked)}
            ELSE {})
      \cup (IF fpc = "commit" /\ repo.staged # {} /\ CommitText(commit_message).ok
            THEN {[repo EXCEPT !.commits = Append(repo.commits,
                                    [message |-> CommitText(commit_message).text,
                                     files |-> repo.staged]),
                               !.staged = {}]}
            ELSE {})
      \cup (IF fpc = "push" THEN {[repo EXCEPT !.pushed = Len(repo.commits)]} ELSE {})
      \cup (IF cli.at = "staging" THEN {Staged(repo, repo.unstaged \cup repo.untracked)}
            ELSE {})

\* KeyboardInterrupt, which no except Exception catches, raised anywhere in main:
\* the handler of main prints and returns 130.
Interrupt ==
    /\ cli.at \in {"start", "running", "staging"}
    /\ repo' \in InterruptedRepos
    /\ console' = Append(console, Stderr(<<"Operation cancelled by user.">>))
    /\ cli' = [cli EXCEPT !.at = "exited", !.exit_code = 130, !.interrupted = TRUE]
    /\ fpc' = IF fpc = "off" THEN "off" ELSE "interrupted"
    /\ UNCHANGED <<opts, commit_message, res, asked, answered, providerVars, parseVars,
                   repo0, factory>>

\* The provider names argparse lets through: none given, or one of the four.
CliProviderNames == {None, "azure", "google"}

InitCli ==
    /\ provider = None
    /\ config \in FlowConfigs
    /\ pc = "idle"
    /\ args = [diff_content |-> <<>>, language |-> None]
    /\ language = None
    /\ prompt = <<>>
    /\ attemps = 0
    /\ sent = <<>>
    /\ outcomes = <<>>
    /\ printed = <<>>
    /\ result = Unset
    /\ error = NoError
    /\ calls = 0
    /\ renders = <<>>
    /\ parseIn = <<>>
    /\ parseOut = <<>>
    /\ opts \in [provider_name : CliProviderNames, include_all : BOOLEAN,
                 language : {None}, show_status : BOOLEAN, auto_confirm : BOOLEAN]
    /\ repo \in [is_repo : BOOLEAN, staged : SUBSET {"a"}, unstaged : SUBSET {"b"},
                 untracked : SUBSET {"c"}, commits : {<<>>}, pushed : {0}]
    /\ fpc = "off"
    /\ commit_message = Unset
    /\ res = ResultInit
    /\ asked = <<>>
    /\ answered = <<>>
    /\ console = <<>>
    /\ repo0 = repo
    /\ factory = FactoryIdle
    /\ cli \in [action : CliActions, output : {"text", "json"}, path_ok : BOOLEAN,
                at : {"start"}, exit_code : {-1}, raised : {FALSE},
                interrupted : {FALSE}, selection : {NoSelection}]

NextCli ==
    \/ MainStart
    \/ NextFlow
    \/ CommitExit
    \/ PreviewValidate
    \/ PreviewGetAiProvider
    \/ PreviewCheckForChanges
    \/ PreviewBackendCall
    \/ PreviewLoopExit
    \/ PreviewGenerateEnded
    \/ PreviewExit
    \/ StatusAction
    \/ HistoryAction
    \/ BranchesAction
    \/ StageStart
    \/ \E sel \in Selections : StageSelect(sel)
    \/ Interrupt

SpecCli == InitCli /\ [][NextCli]_vars

(***************************************************************************)
(* main on --stage alone, over the selections a user can type: numbers and *)
(* ranges from 0 up, and what is neither.                                  *)
(***************************************************************************)
\* The numbers typed go up to MaxNumber, one more than the files listed.
MaxNumber == 4

\* Numbers, ranges, and parts that are neither, alone; and numbers in twos.
SelectionInputs ==
    LET SingleParts == {<<IntTok(n)>> : n \in 0..MaxNumber}
        RangeParts == {<<IntTok(a), Dash, IntTok(b)>> : a, b \in 0..MaxNumber}
        MalformedParts == {<<>>, <<Word("x")>>, <<Dash, IntTok(1)>>,
                           <<IntTok(1), Dash, IntTok(2), Dash, IntTok(3)>>}
    IN  {TypedAll, EndOfInput}
            \cup {Typed(<<p>>) : p \in SingleParts \cup RangeParts \cup MalformedParts}
            \cup {Typed(<<p, q>>) : p, q \in SingleParts}

InitStage ==
    /\ provider = None
    /\ config = FullConfig
    /\ pc = "idle"
    /\ args = [diff_content |-> <<>>, language |-> None]
    /\ language = None
    /\ prompt = <<>>
    /\ attemps = 0
    /\ sent = <<>>
    /\ outcomes = <<>>
    /\ printed = <<>>
    /\ result = Unset
    /\ error = NoError
    /\ calls = 0
    /\ renders = <<>>
    /\ parseIn = <<>>
    /\ parseOut = <<>>
    /\ opts = [provider_name |-> None, include_all |-> FALSE, language |-> None,
               show_status |-> FALSE, auto_confirm |-> FALSE]
    /\ repo \in [is_repo : BOOLEAN, staged : {{}}, unstaged : SUBSET {"a", "b"},
                 untracked : SUBSET {"c"}, commits : {<<>>}, pushed : {0}]
    /\ fpc = "off"
    /\ commit_message = Unset
    /\ res = ResultInit
    /\ asked = <<>>
    /\ answered = <<>>
    /\ console = <<>>
    /\ repo0 = repo
    /\ factory = FactoryIdle
    /\ cli \in [action : {"stage"}, output : {"text", "json"}, path_ok : BOOLEAN,
                at : {"start"}, exit_code : {-1}, raised : {FALSE},
                interrupted : {FALSE}, selection : {NoSelection}]

NextStage ==
    \/ MainStart
    \/ StageStart
    \/ \E sel \in SelectionInputs : StageSelect(sel)

SpecStage == InitStage /\ [][NextStage]_vars

(***************************************************************************)
(* The reply parser on its own: a well-formed reply is parsed bare and     *)
(* under each wrapping.                                                    *)
(***************************************************************************)
\* The text of the string values of the well-formed replies tried.
TitleTexts == {<<"x">>, <<"x", WS, LB, "x", RB>>, <<"x", RB, WS, FENCE>>}

DescriptionTexts ==
    {<<>>, <<"x">>, <<"x", COLON, WS, "x">>, <<"x", WS, FENCE, "x", FENCE>>,
     <<FENCE, LB, RB, FENCE>>, <<"x", FENCE, TAG, WS, LB, "x", RB, WS, FENCE>>}

\* A well-formed reply: the two keys in either order, with or without whitespace
\* between the tokens.
WellFormedReply(t, d, titleFirst, spaced) ==
    LET sp == IF spaced THEN <<WS>> ELSE <<>>
        mt == Str(<<"title">>) \o <<COLON>> \o sp \o Str(t)
        md == Str(<<"description">>) \o <<COLON>> \o sp \o Str(d)
    IN  <<LB>> \o sp \o (IF titleFirst THEN mt ELSE md) \o <<COMMA>> \o sp
            \o (IF titleFirst THEN md ELSE mt) \o sp \o <<RB>>

WellFormedReplies ==
    {WellFormedReply(t, d, f, sp) :
        t \in TitleTexts, d \in DescriptionTexts, f \in BOOLEAN, sp \in BOOLEAN}

\* A reply in a fenced code block, with or without the language tag.
InFence(text, tagged) ==
    <<FENCE>> \o (IF tagged THEN <<TAG>> ELSE <<>>) \o <<WS>> \o text \o <<WS, FENCE>>

Wrappings == {"bare", "fence", "json fence", "fence in fence", "json fence in fence"}

Wrapped(text, w) ==
    CASE w = "bare" -> text
      [] w = "fence" -> InFence(text, FALSE)
      [] w = "json fence" -> InFence(text, TRUE)
      [] w = "fence in fence" -> InFence(InFence(text, FALSE), FALSE)
      [] w = "json fence in fence" -> InFence(InFence(text, TRUE), FALSE)

\* The parser applied to the reply under wrapping w.
ParseWrapped(w) ==
    /\ parseIn # <<>>
    /\ w \notin DOMAIN parseOut
    /\ parseOut' = (w :> TryBody([kind |-> "text", text |-> Wrapped(parseIn, w)])) @@ parseOut
    /\ UNCHANGED <<parseIn, providerVars, flowVars, entryVars>>

ProviderInit ==
    /\ provider \in Providers
    /\ config \in {[FullConfig EXCEPT !.default_lang = l] : l \in DefaultLangs}
    /\ pc = "idle"
    /\ args = [diff_content |-> <<>>, language |-> None]
    /\ language = None
    /\ prompt = <<>>
    /\ attemps = 0
    /\ sent = <<>>
    /\ outcomes = <<>>
    /\ printed = <<>>
    /\ result = Unset
    /\ error = NoError
    /\ calls = 0
    /\ renders = <<>>

InitParse ==
    /\ ProviderInit
    /\ FlowOff
    /\ provider = "openai"
    /\ config.default_lang = ""
    /\ parseIn \in WellFormedReplies
    /\ parseOut = <<>>
    /\ EntryOff

NextParse == \E w \in Wrappings : ParseWrapped(w)

SpecParse == InitParse /\ [][NextParse]_vars

(***************************************************************************)
(* The factory and is_configured on their own, over the settings.          *)
(***************************************************************************)
InitFactory ==
    /\ provider = None
    /\ config \in FactoryConfigs
    /\ pc = "idle"
    /\ args = [diff_content |-> <<>>, language |-> None]
    /\ language = None
    /\ prompt = <<>>
    /\ attemps = 0
    /\ sent = <<>>
    /\ outcomes = <<>>
    /\ printed = <<>>
    /\ result = Unset
    /\ error = NoError
    /\ calls = 0
    /\ renders = <<>>
    /\ FlowOff
    /\ parseIn = <<>>
    /\ parseOut = <<>>
    /\ EntryOff

NextFactory ==
    \/ \E p \in Providers : NewProvider(p)
    \/ IsConfiguredCall
    \/ \E n \in FactoryNames : CreateProviderCall(n)

SpecFactory == InitFactory /\ [][NextFactory]_vars

(***************************************************************************)
(* A provider and the generate calls made on it, one after the other.      *)
(***************************************************************************)
Init ==
    /\ ProviderInit
    /\ FlowOff
    /\ parseIn = <<>>
    /\ parseOut = <<>>
    /\ EntryOff

Call ==
    /\ pc \in {"idle", "returned", "raised"}
    /\ calls < MaxCalls
    /\ \E d \in DiffInputs, l \in LanguageInputs : Generate(d, l)
    /\ UNCHANGED <<parseVars, flowVars, entryVars>>

BackendCall ==
    /\ \E o \in BackendOutcomes : Attempt(o)
    /\ UNCHANGED <<parseVars, flowVars, entryVars>>

LoopExit ==
    /\ AfterLoop
    /\ UNCHANGED <<parseVars, flowVars, entryVars>>

Next == Call \/ BackendCall \/ LoopExit

Spec == Init /\ [][Next]_vars

(***************************************************************************)
(* One generate call on each provider, over the language arguments and the *)
(* default languages a caller and the settings can hold: absent, empty, or *)
(* a language.                                                             *)
(***************************************************************************)
\* The language argument is absent, empty or a language (language: Optional[str]
\* = None; the command line passes the text of --language), and so is the default
\* of the settings (Optional on Config; from_env reads DEFAULT_LANG, which can be
\* set to the empty string).
InitLanguage ==
    /\ provider \in Providers
    /\ config \in {[FullConfig EXCEPT !.default_lang = l] : l \in {None, "", "fr"}}
    /\ pc = "idle"
    /\ args = [diff_content |-> <<>>, language |-> None]
    /\ language = None
    /\ prompt = <<>>
    /\ attemps = 0
    /\ sent = <<>>
    /\ outcomes = <<>>
    /\ printed = <<>>
    /\ result = Unset
    /\ error = NoError
    /\ calls = 0
    /\ renders = <<>>
    /\ FlowOff
    /\ parseIn = <<>>
    /\ parseOut = <<>>
    /\ EntryOff

CallWithLanguage ==
    /\ pc = "idle"
    /\ \E d \in DiffInputs, l \in {None, "", "es"} : Generate(d, l)
    /\ UNCHANGED <<parseVars, flowVars, entryVars>>

NextLanguage == CallWithLanguage \/ BackendCall \/ LoopExit

SpecLanguage == InitLanguage /\ [][NextLanguage]_vars

(***************************************************************************)
(* The claims about generate_commit_message.                               *)
(***************************************************************************)
\* The reply of a backend call parses: it is text whose cleaned form is JSON.
Parses(o) == o.kind = "text" /\ JsonLoads(CleanMarkdownJsonBlock(Strip(o.text))).ok

Parsed(o) == JsonLoads(CleanMarkdownJsonBlock(Strip(o.text))).val

HasKey(v, k) == v.t = "obj" /\ <<k>> \in DOMAIN v.m

Ended == pc \in {"returned", "raised"}

\* C1: a generate call makes at most 3 attempts; when every attempt fails (the
\* backend raises, or the reply cannot be parsed) it makes exactly 3 and then
\* raises the error that names the provider and the count 3; it raises in no
\* other case.
C1_AtMostThreeAttempts ==
    /\ Len(outcomes) <= 3
    /\ attemps <= 3
    /\ (Ended /\ \A i \in 1..Len(outcomes) : ~Parses(outcomes[i]))
          => /\ pc = "raised"
             /\ Len(outcomes) = 3
             /\ error = [with |-> ProviderLabel(provider), after |-> 3]
    /\ pc = "raised" => \A i \in 1..Len(outcomes) : ~Parses(outcomes[i])

\* A call of every kind of failure has ended with the final error.
C1_Witness ==
    /\ pc = "raised"
    /\ \E i, j, k \in 1..Len(outcomes) :
          /\ outcomes[i].kind = "raise"
          /\ outcomes[j].kind = "none"
          /\ outcomes[k].kind = "text"

\* C2: every value generate_commit_message returns is a mapping that holds the
\* key title and the key description.
C2_SuccessHasBothKeys ==
    pc = "returned" => HasKey(result, "title") /\ HasKey(result, "description")

\* C3: when the reply of every attempt lacks the title key, the call ends with
\* the final error that reports 3 attempts.
C3_MissingTitleExhausts ==
    (/\ Ended
     /\ outcomes # <<>>
     /\ \A i \in 1..Len(outcomes) :
           outcomes[i].kind = "text"
           /\ (Parses(outcomes[i]) => ~HasKey(Parsed(outcomes[i]), "title")))
        => pc = "raised" /\ Len(outcomes) = 3 /\ error.after = 3

\* C5: when attempt 1 fails and attempt 2 succeeds, the call returns the parsed
\* reply of attempt 2 and has printed nothing.
C5_NoTraceOfFailedAttempt ==
    (/\ pc = "returned"
     /\ Len(outcomes) = 2
     /\ ~Parses(outcomes[1])
     /\ Parses(outcomes[2]))
        => result = Parsed(outcomes[2]) /\ printed = <<>>

\* C6: each attempt issues one backend call and none follows the first reply that
\* parses: the backend calls number the index of the first attempt whose reply
\* parses, or 3 when none does, and the value returned is that reply parsed.
C6_OneCallPerAttempt ==
    /\ \A i \in 1..(Len(outcomes) - 1) : ~Parses(outcomes[i])
    /\ pc = "loop" => Len(sent) = attemps
    /\ pc = "returned" =>
          /\ Len(outcomes) >= 1
          /\ Parses(outcomes[Len(outcomes)])
          /\ Len(sent) = Len(outcomes)
          /\ Len(sent) = attemps + 1
          /\ result = Parsed(outcomes[Len(outcomes)])
    /\ pc = "raised" => Len(sent) = 3
    /\ \A i \in 1..Len(sent) : sent[i] = prompt

\* A call has returned the reply of its third attempt.
C6_Witness == pc = "returned" /\ Len(sent) = 3 /\ result = Parsed(outcomes[3])

(***************************************************************************)
(* The claims about _create_base_prompt.                                   *)
(***************************************************************************)
\* The text holds the chunk, or the chunks, in one piece.
Contains(text, chunk) == \E i \in 1..Len(text) : text[i] = chunk

ContainsText(text, part) ==
    \E i \in 1..(Len(text) - Len(part) + 1) : SubSeq(text, i, i + Len(part) - 1) = part

\* The language the rendering of r writes the instruction in.
Resolved(r) == Or(r.language, Or(config.default_lang, "en"))

\* The labels of the sections a prompt holds, in their order.
SectionLabels(text) ==
    SelectSeq(text, LAMBDA c : c \in {BRANCH_NAME[1].text, PREVIOUS_COMMITS[1].text,
                                     ADDITIONAL_CONTEXT[1].text, CODE_CHANGES[1].text})

\* The label of the section of each field the rendering was given, in the order
\* of the templates.  The code's rendering takes the diff text and no branch
\* name, previous commits or additional context.
Given(r, f) == f \in DOMAIN r /\ r[f] # <<>>

ExpectedLabels(r) ==
    (IF Given(r, "branch_name") THEN <<BRANCH_NAME[1].text>> ELSE <<>>)
        \o (IF Given(r, "previous_commits") THEN <<PREVIOUS_COMMITS[1].text>> ELSE <<>>)
        \o (IF Given(r, "additional_context") THEN <<ADDITIONAL_CONTEXT[1].text>> ELSE <<>>)
        \o (IF Given(r, "diff_content") THEN <<CODE_CHANGES[1].text>> ELSE <<>>)

\* C8: the prompt rendered holds the diff text verbatim and the instruction to
\* write in the language; with no optional context it holds no branch name section.
C8_PromptHoldsDiffAndLanguage ==
    \A n \in 1..Len(renders) :
        LET r == renders[n]
        IN  /\ ContainsText(r.prompt, r.diff_content)
            /\ \E i \in 1..(Len(r.prompt) - 1) :
                  /\ r.prompt[i] = "- The message must be written in "
                  /\ r.prompt[i + 1] = Resolved(r)
            /\ ~Contains(r.prompt, BRANCH_NAME[1].text)

\* C9: two renderings of the same diff text and language on the same settings
\* give the same prompt, whatever was rendered or generated in between.
C9_RenderingDeterministic ==
    \A i, j \in 1..Len(renders) :
        (renders[i].diff_content = renders[j].diff_content
         /\ renders[i].language = renders[j].language)
            => renders[i].prompt = renders[j].prompt

\* The same inputs were rendered before and after a rendering of other inputs and
\* a call that exhausted its attempts.
C9_Witness ==
    /\ Len(renders) = 3
    /\ renders[1].diff_content = renders[3].diff_content
    /\ renders[1].language = renders[3].language
    /\ renders[2].language # renders[1].language
    /\ pc = "raised"

\* C10: the prompt holds one labelled section for each field given and none for a
\* field not given, in the order branch name, previous commits, additional
\* context, code changes.
C10_SectionPerField ==
    \A n \in 1..Len(renders) : SectionLabels(renders[n].prompt) = ExpectedLabels(renders[n])

(***************************************************************************)
(* The claim about the parser.                                             *)
(***************************************************************************)
\* C7: from a well-formed reply the parser recovers the same structured result
\* whether the reply is bare, in a fence or in a fence with the json tag, and
\* wrapping a wrapped reply again does not change the result.
C7_SameResultHoweverWrapped ==
    \A w \in DOMAIN parseOut :
        /\ parseOut[w].ok
        /\ \A v \in DOMAIN parseOut : parseOut[w].val = parseOut[v].val

(***************************************************************************)
(* The claim about the commit flow.                                        *)
(***************************************************************************)
\* C4: in generate_and_commit a generated message that has no title ends the
\* flow as a failure (success false, no commit hash, an error) before any
\* confirmation, staging or commit, with auto_confirm and without: no commit is
\* created from it.
C4_MissingTitleNeverCommitted ==
    (pc = "returned" /\ ~HasKey(result, "title"))
        => /\ repo.commits = <<>>
           /\ fpc \in {"generating", "done"}
           /\ asked = <<>>
           /\ fpc = "done" =>
                 /\ ~res.success
                 /\ res.commit_hash = 0
                 /\ res.error.t = "text"

\* With auto_confirm and a staged file, the flow has ended on a generated object
\* that has a description and no title.
C4_Witness ==
    /\ fpc = "done"
    /\ pc = "returned"
    /\ result.t = "obj"
    /\ ~HasKey(result, "title")
    /\ opts.auto_confirm
    /\ repo.staged # {}
    /\ res.error = Text(<<"'title'">>)

(***************************************************************************)
(* The factory and is_configured.                                          *)
(***************************************************************************)
\* A settings field that is neither absent nor empty.
Present(v) == v # None /\ v # ""

\* The fields each variant cannot do without: the API key of openai and of
\* google, the API key and the endpoint of azure, the model of ollama (its URL
\* has a default in the client).
Required(p, cfg) ==
    CASE p = "openai" -> Present(cfg.openai_api_key)
      [] p = "google" -> Present(cfg.google_api_key)
      [] p = "azure" -> Present(cfg.azure_api_key) /\ Present(cfg.azure_endpoint)
      [] p = "ollama" -> Present(cfg.ollama_model)

\* C11: for each of the four variants is_configured() is true exactly when every
\* field the variant requires is present (neither absent nor empty), and the
\* call issues no backend call and starts no generation.
C11_IsConfiguredIffCredentials ==
    factory.call = "is_configured" =>
        /\ factory.value = Required(factory.name, config)
        /\ factory.outcome = "returned"
        /\ sent = <<>> /\ calls = 0 /\ pc = "idle"

\* An azure provider with its key and no endpoint reports that it is not configured.
C11_Witness ==
    /\ factory.call = "is_configured" /\ factory.name = "azure"
    /\ Present(config.azure_api_key) /\ config.azure_endpoint = None
    /\ ~factory.value

\* C12: create_provider given an identifier that is none of openai, google, azure
\* and ollama (None included) raises the error that lists the four identifiers,
\* instantiates no provider and returns none.
C12_UnknownProviderFails ==
    (factory.call = "create_provider"
        /\ factory.name \notin {"openai", "google", "azure", "ollama"}) =>
        /\ factory.outcome = "raised"
        /\ factory.text = <<"Provider '", factory.name, "' not available. Available: ",
                            "openai, google, azure, ollama">>
        /\ factory.constructed = <<>>
        /\ provider = None

\* create_provider was given no identifier at all.
C12_Witness ==
    /\ factory.call = "create_provider" /\ factory.name = None
    /\ factory.outcome = "raised"

\* C13: a provider that create_provider returns has every field it requires; and
\* when the provider it instantiated reports is_configured() false, it raises the
\* not-configured error that names the provider and returns none.
C13_ReturnedProviderIsConfigured ==
    factory.call = "create_provider" =>
        /\ factory.outcome = "returned" =>
              /\ provider = factory.name
              /\ factory.constructed = <<factory.name>>
              /\ Required(factory.name, config)
        /\ (factory.constructed # <<>> /\ ~IsConfigured(factory.name, config)) =>
              /\ factory.outcome = "raised"
              /\ factory.text = <<"Provider '", factory.name, "' is not configured correctly. ",
                                  "Check your configuration settings.">>
              /\ provider = None

\* create_provider instantiated the azure provider, found it short of its endpoint
\* and raised.
C13_Witness ==
    /\ factory.call = "create_provider" /\ factory.name = "azure"
    /\ factory.constructed = <<"azure">> /\ factory.outcome = "raised"
    /\ Present(config.azure_api_key) /\ ~Present(config.azure_endpoint)

\* C14: create_provider given one of the four identifiers, with the fields that
\* variant requires present, instantiates that variant and returns it.
C14_EachVariantInstantiated ==
    (factory.call = "create_provider" /\ factory.name \in Providers
        /\ Required(factory.name, config)) =>
        /\ factory.outcome = "returned"
        /\ factory.constructed = <<factory.name>>
        /\ provider = factory.name

(***************************************************************************)
(* The commit flow: when a commit is created.                              *)
(***************************************************************************)
\* A message with both of its keys.
WellFormed(m) == HasKey(m, "title") /\ HasKey(m, "description")

\* What the user answered to question q, in order.
AnswersTo(q) == {answered[i] : i \in {k \in 1..Len(answered) : asked[k] = q}}

Confirmed == opts.auto_confirm \/ "y" \in AnswersTo("Use this commit message?")

Declined == "n" \in AnswersTo("Use this commit message?")

\* C15: when the commit flow has ended, a commit was created only if the provider
\* returned a message with both title and description and, auto_confirm off, the
\* user answered yes; and with such a message, the confirmation and no error
\* reported, a commit was created.
C15_CommitIffWellFormedAndConfirmed ==
    fpc = "done" =>
        /\ repo.commits # repo0.commits =>
              pc = "returned" /\ WellFormed(result) /\ Confirmed
        /\ (pc = "returned" /\ WellFormed(result) /\ Confirmed /\ res.error = NoText) =>
              repo.commits # repo0.commits

\* C18: when the user answers no to the generated message, the flow ends there:
\* the result has no error and no success, its message is "Commit cancelled by
\* user", and the repository is as it was, nothing staged, committed or pushed.
C18_DeclineIsNoError ==
    Declined =>
        /\ fpc = "done"
        /\ res = [ResultInit EXCEPT !.message = Text(<<"Commit cancelled by user">>)]
        /\ repo = repo0
        /\ Stdout(<<"Commit cancelled.">>) = console[Len(console)]
        /\ \A i \in 1..Len(console) : console[i].stream = "stdout"

\* The user declined in a flow that was to stage every change before committing.
C18_Witness ==
    /\ Declined /\ opts.include_all
    /\ repo.unstaged # {} /\ repo.untracked # {}
    /\ fpc = "done"

(***************************************************************************)
(* The command line: interrupts, exit codes, errors at the top level.      *)
(***************************************************************************)
\* The files a commit of this invocation is to hold.
ToCommit ==
    IF opts.include_all THEN repo0.staged \cup repo0.unstaged \cup repo0.untracked
    ELSE repo0.staged

\* The staging area and the history are as they were before the invocation.
AsBefore ==
    /\ repo.staged = repo0.staged /\ repo.unstaged = repo0.unstaged
    /\ repo.untracked = repo0.untracked /\ repo.commits = repo0.commits

\* The staging area and the history reflect one complete commit.
OneCompleteCommit ==
    /\ Len(repo.commits) = Len(repo0.commits) + 1
    /\ repo.commits[Len(repo.commits)].files = ToCommit
    /\ repo.staged = {}
    /\ repo.unstaged \cup repo.untracked =
          (repo0.unstaged \cup repo0.untracked) \ ToCommit

\* C16: after an interrupt of the commit flow, wherever it arrived, the staging
\* area and the history are as before the invocation or reflect one complete
\* commit.
C16_InterruptLeavesNoPartialState ==
    (cli.action = "commit" /\ cli.interrupted) => (AsBefore \/ OneCompleteCommit)

\* Some line printed on stderr, or printed as JSON, holds the chunk.
Reported(chunk) ==
    \E i \in 1..Len(console) :
        /\ console[i].stream = "stderr" \/ Head(console[i].text) = "{"
        /\ \E j \in 1..Len(console[i].text) : console[i].text[j] = chunk

\* The name of the provider selected: the argument, or the default of the settings.
Selected == Or(opts.provider_name, config.default_provider)

\* The selected provider is unknown, or lacks a field it requires.
ProviderRejected == Selected \notin Providers \/ ~Required(Selected, config)

\* A validation error: the repository path is no directory, the directory is no
\* Git repository where the action validates it, or the provider is rejected
\* where the action needs one.
ValidationError ==
    \/ ~cli.path_ok
    \/ cli.action \in {"commit", "preview", "status"} /\ ~repo.is_repo
    \/ cli.action \in {"commit", "preview"} /\ ProviderRejected

\* The action did what it is for.
Succeeded ==
    CASE cli.action = "commit" -> res.success
      [] cli.action = "preview" -> commit_message.t = "obj"
      [] cli.action = "stage" -> repo.staged # repo0.staged
      [] OTHER -> ~cli.raised

\* C17: main returns 0 when the action succeeded, a code other than 0 on a
\* validation error, on a failure of the backend and when the user declined, and
\* on an interrupt a code that is neither 0 nor one of the error codes 1 and 2.
C17_ExitCodes ==
    cli.at = "exited" =>
        IF cli.interrupted THEN cli.exit_code \notin {0, 1, 2}
        ELSE /\ (ValidationError \/ pc = "raised" \/ Declined) => cli.exit_code # 0
             /\ Succeeded => cli.exit_code = 0

\* C19: whatever the action and the output format, when an error was raised while
\* the action was performed, main has printed a message for the user and returns
\* a code other than 0.
C19_NoErrorDropped ==
    (cli.at = "exited" /\ ~cli.interrupted /\ cli.raised) =>
        /\ cli.exit_code # 0
        /\ \E i \in 1..Len(console) :
              console[i].stream = "stderr" \/ Head(console[i].text) = "{"

\* C20: in the commit flow and in the preview flow, when the selected provider is
\* unknown or not configured, no generation is started and no backend call made,
\* nothing is staged, committed or pushed, no question asked, and main, unless
\* interrupted, reports the error and returns 1.
C20_RejectedProviderFailsFast ==
    (cli.action \in {"commit", "preview"} /\ ProviderRejected) =>
        /\ sent = <<>> /\ calls = 0 /\ pc = "idle"
        /\ repo = repo0
        /\ asked = <<>>
        /\ (cli.at = "exited" /\ ~cli.interrupted) =>
              cli.exit_code # 0 /\ cli.raised

\* The commit flow, with a file staged and no confirmation to wait for, stopped at
\* an azure provider that has no endpoint.
C20_Witness ==
    /\ cli.action = "commit" /\ cli.at = "exited" /\ cli.exit_code = 1
    /\ opts.auto_confirm /\ repo0.is_repo /\ repo0.staged # {}
    /\ Selected = "azure" /\ ~Required("azure", config)
    /\ Reported("Provider '") /\ Reported("' is not configured correctly. ")

(***************************************************************************)
(* The provider across calls.                                              *)
(***************************************************************************)
\* C21: whatever calls were made on the provider before, a generate call counts
\* its attempts from zero and ends on its own inputs and replies alone: it sends
\* the prompt of its own arguments, it raises only after 3 replies of its own that
\* all failed, and it returns the first of its own replies that parses.
C21_StatelessAcrossCalls ==
    /\ pc = "loop" => attemps = Len(outcomes)
    /\ pc # "idle" =>
          /\ prompt = BuildPrompt(provider, args.diff_content, args.language)
          /\ \A i \in 1..Len(sent) : sent[i] = prompt
    /\ pc = "raised" =>
          /\ Len(outcomes) = 3
          /\ \A i \in 1..3 : ~Parses(outcomes[i])
          /\ result = Unset
    /\ pc = "returned" =>
          /\ Len(outcomes) \in 1..3
          /\ \A i \in 1..(Len(outcomes) - 1) : ~Parses(outcomes[i])
          /\ Parses(outcomes[Len(outcomes)])
          /\ result = Parsed(outcomes[Len(outcomes)])
          /\ error = NoError

\* A third call, made after two others, has used its three attempts.
C21_Witness ==
    /\ calls = 3 /\ Len(renders) = 3
    /\ pc = "raised" /\ Len(outcomes) = 3

(***************************************************************************)
(* The commit flow, step by step.                                          *)
(***************************************************************************)
\* The last answer of the user.
LastAnswer == IF answered = <<>> THEN "" ELSE answered[Len(answered)]

\* The step the flow takes from one place to the next is in order: each place is
\* entered from its predecessor only, and only when the predecessor has come to a
\* good end.
InOrder ==
    /\ fpc' = "provider" => fpc = "start"
    /\ fpc' = "check" => fpc = "provider" /\ provider' \in Providers
    /\ fpc' = "generating" => fpc = "check" /\ CheckChanges(opts.include_all).has_changes
    /\ fpc' = "confirm" =>
          /\ fpc = "generating" /\ pc = "returned" /\ HasKey(result, "title")
          /\ ~opts.auto_confirm
    /\ fpc' \in {"stage", "commit"} /\ fpc \notin {"stage"} =>
          \/ fpc = "generating" /\ pc = "returned" /\ opts.auto_confirm
          \/ fpc = "confirm" /\ LastAnswer' = "y"
    /\ fpc' = "stage" => opts.include_all
    /\ fpc' = "commit" =>
          IF opts.include_all
          THEN fpc = "stage" /\ repo'.unstaged = {} /\ repo'.untracked = {}
          ELSE fpc \in {"generating", "confirm"}
    /\ fpc' = "push_confirm" =>
          /\ fpc = "commit" /\ res'.success
          /\ Len(repo'.commits) = Len(repo.commits) + 1
    /\ fpc' = "push" => fpc = "push_confirm" /\ LastAnswer' = "y" /\ res.success

\* Each effect belongs to its step: backend calls to the generation, staging to the
\* staging step, the commit to the commit step, the push to the push step.
EffectsInPlace ==
    /\ sent' # sent => fpc = "generating"
    /\ asked' # asked => fpc \in {"generating", "confirm", "commit", "push_confirm"}
    /\ repo'.commits # repo.commits => fpc = "commit"
    /\ (repo'.staged # repo.staged \/ repo'.unstaged # repo.unstaged
           \/ repo'.untracked # repo.untracked) => fpc \in {"stage", "commit"}
    /\ repo'.pushed # repo.pushed =>
          fpc = "push" /\ res.success /\ repo.commits # repo0.commits

\* C22: in the commit flow the steps come in the order check for changes, obtain
\* the message, confirm, stage (with include_all only), commit, push; a step is
\* entered only when the one before it has come to a good end, and a push is made
\* only after the commit succeeded.
C22_StepsInOrder == [][(fpc' # fpc => InOrder) /\ EffectsInPlace]_vars

\* Every step was taken: the changes were staged, committed and pushed.
C22_Witness ==
    /\ fpc = "done" /\ opts.include_all /\ ~opts.auto_confirm
    /\ repo0.unstaged # {} /\ repo0.untracked # {}
    /\ repo.pushed = 1 /\ Len(repo.commits) = 1

(***************************************************************************)
(* The language of a call.                                                 *)
(***************************************************************************)
\* A language is given: it is there and it is not the empty string.
NonEmpty(l) == l # None /\ l # ""

\* The language a call is to write in: the argument, else the default of the
\* settings, else English.
TargetLanguage(lang) ==
    IF NonEmpty(lang) THEN lang
    ELSE IF NonEmpty(config.default_lang) THEN config.default_lang
    ELSE "en"

\* C23: a call of generate_commit_message, of any of the four providers, writes in
\* the language argument when that is non-empty, else in the default language of
\* the settings when that is non-empty, else in "en": that is the language the
\* call resolves and the one its prompt, and every prompt it sends, asks for.
C23_LanguageResolution ==
    pc # "idle" =>
        /\ language = TargetLanguage(args.language)
        /\ \E i \in 1..(Len(prompt) - 1) :
              /\ prompt[i] = "- The message must be written in "
              /\ prompt[i + 1] = TargetLanguage(args.language)
        /\ \A n \in 1..Len(sent) : sent[n] = prompt
        /\ \A q \in Providers :
              ContainsText(BuildPrompt(q, args.diff_content, args.language),
                           <<"- The message must be written in ",
                             TargetLanguage(args.language)>>)

\* A call with an empty language argument on settings with an empty default
\* language has sent a prompt that asks for English.
C23_Witness ==
    /\ args.language = "" /\ config.default_lang = ""
    /\ language = "en" /\ sent # <<>>

(***************************************************************************)
(* The preview.                                                            *)
(***************************************************************************)
\* C24: the preview action never changes the repository: wherever it stands and
\* however it ended, nothing was staged, committed or pushed, no question was put
\* to the user, and the commit flow was not entered.
C24_PreviewChangesNothing ==
    cli.action = "preview" =>
        /\ repo = repo0
        /\ asked = <<>> /\ answered = <<>>
        /\ res = ResultInit
        /\ fpc \notin {"start", "provider", "check", "generating", "confirm", "stage",
                       "commit", "push_confirm", "push", "done"}

\* A preview has ended on a generation that failed three times, on a repository
\* with changes of every kind.
C24_Witness ==
    /\ cli.action = "preview" /\ cli.at = "exited" /\ cli.exit_code = 1
    /\ pc = "raised" /\ Len(sent) = 3
    /\ repo.staged # {}

(***************************************************************************)
(* The flow on a scope without changes.                                    *)
(***************************************************************************)
\* The scope selected holds no change: nothing is staged, without include_all;
\* with it, nothing is staged, modified or untracked, or the diff text is blank
\* (what is untracked is passed over by the diff).  No commit was made, so the
\* scope is the one the flow was called on.
ScopeEmpty ==
    /\ repo.commits = <<>>
    /\ IF opts.include_all
       THEN repo.staged = {} /\ repo.unstaged = {} /\ repo.untracked \subseteq LargeFiles
       ELSE repo.staged = {}

\* The flow has come to its end through the check for changes: the repository
\* is valid, the provider was made and the status was read.
PastTheCheck ==
    /\ fpc = "done" /\ provider # None
    /\ ~Reported("Error getting repository status: ")

NoChangesText ==
    IF opts.include_all THEN <<"No changes to commit.">>
    ELSE <<"No staged changes found. Please stage your changes or use --all flag.">>

C26_AutoConfirmNeverAsksNorPushes ==
    opts.auto_confirm =>
        /\ asked = <<>> /\ answered = <<>>
        /\ fpc \notin {"confirm", "push_confirm", "push"}
        /\ repo.pushed = 0
        /\ \A i \in 1..Len(console) : console[i] # Stdout(<<"Attempting to push changes...">>)

\* With auto_confirm the flow has staged and committed the changes, and ended.
C26_Witness ==
    /\ opts.auto_confirm /\ opts.include_all
    /\ fpc = "done" /\ res.success /\ Len(repo.commits) = 1

(***************************************************************************)
(* The result generate_and_commit returns.                                 *)
(***************************************************************************)
\* C27: every result returned is consistent: success is true exactly when
\* commit_hash is set, and a result with success true has no error.
C27_ResultConsistent ==
    fpc = "done" =>
        /\ res.success <=> res.commit_hash # 0
        /\ res.success => res.error = NoText

(***************************************************************************)
(* Failures within generate_and_commit.                                    *)
(***************************************************************************)
\* The lines generate_and_commit printed on stderr, one for each failure it met:
\* those of main, on the path argument and on the interrupt, are not its own.
FailureLines ==
    {i \in 1..Len(console) :
        /\ console[i].stream = "stderr"
        /\ Head(console[i].text) \notin {"Invalid argument: ", "Operation cancelled by user."}}

\* The failure of the push, which comes after the commit.
PushFailure(i) == console[i] = Stderr(<<"Error pushing changes: ">>)

\* Nothing but an interrupt takes the commit action out of generate_and_commit:
\* once entered, it is left with a result returned, or by the interrupt.
OnlyInterruptPropagates ==
    /\ fpc = "interrupted" => cli.interrupted
    /\ (cli.at = "exited" /\ ~cli.interrupted /\ cli.path_ok) => fpc = "done"
    /\ (cli.at = "exited" /\ ~cli.interrupted /\ cli.path_ok /\ cli.raised)
          => res.error # NoText

PushFailed ==
    \E i \in 1..Len(console) : console[i] = Stderr(<<"Error pushing changes: ">>)

\* C29: after a commit that succeeded, without auto_confirm, a push that fails
\* neither undoes nor relabels the commit: the commit stays in the repository,
\* the result returned has success true and the hash of the commit and no error,
\* and the error of the push is printed, with the advice to push by hand.
C29_FailedPushKeepsCommit ==
    PushFailed =>
        /\ ~opts.auto_confirm /\ fpc = "done"
        /\ Len(repo.commits) = 1 /\ repo.pushed = 0
        /\ repo.commits[1].message = CommitText(commit_message).text
        /\ res.success /\ res.commit_hash = Len(repo.commits)
        /\ res.message = commit_message
        /\ res.error = NoText
        /\ console[Len(console)] = Stdout(<<"You can push manually later with: git push">>)

\* The user accepted the message and the push, and the push has failed.
C29_Witness ==
    /\ PushFailed /\ answered = <<"y", "y">>
    /\ res.success /\ Len(repo.commits) = 1

(***************************************************************************)
(* The selection of interactive staging.                                   *)
(***************************************************************************)
\* The selection is one of numbers and ranges of numbers.
OfNumbers(sel) ==
    /\ sel.kind = "text" /\ sel.parts # <<>>
    /\ \A k \in 1..Len(sel.parts) :
          LET part == sel.parts[k]
          IN  \/ Len(part) = 1 /\ part[1].t = "int"
              \/ /\ Len(part) = 3
                 /\ part[1].t = "int" /\ part[2].t = "dash" /\ part[3].t = "int"

\* The numbers that stand in the selection, alone or as the end of a range.
Endpoints(sel) ==
    UNION {{sel.parts[k][i].n : i \in {j \in 1..Len(sel.parts[k]) : sel.parts[k][j].t = "int"}} :
              k \in 1..Len(sel.parts)}

\* The numbers the selection names: each number alone, and those from one end of
\* a range to the other.
Named(sel) ==
    UNION {IF Len(sel.parts[k]) = 1 THEN {sel.parts[k][1].n}
           ELSE sel.parts[k][1].n .. sel.parts[k][3].n : k \in 1..Len(sel.parts)}

\* The files as stage_interactive listed them.
ListedFiles == Listed(repo0.unstaged) \o Listed(repo0.untracked)

\* C30: with N files listed, a selection of numbers stages exactly the files whose
\* numbers it names; when a number or an end of a range lies outside 1..N, 0
\* included, the selection is invalid, nothing is staged and the prompt comes
\* again; no file is staged whose number was not named.
C30_SelectionStagesNamedFiles ==
    (cli.action = "stage" /\ OfNumbers(cli.selection)) =>
        LET sel == cli.selection
            N == Len(ListedFiles)
        IN  IF Endpoints(sel) \subseteq 1..N
            THEN \/ repo = Staged(repo0, {ListedFiles[n] : n \in Named(sel)})
                 \/ repo = repo0 /\ cli.raised
            ELSE /\ repo = repo0
                 /\ cli.at = "staging"
                 /\ console[Len(console)] = Stdout(<<"Invalid selection. Please try again.">>)
                 /\ asked[Len(asked)] = "Enter file numbers to stage"
====
